---- MODULE Spec2Model ----
(***************************************************************************)
(* Verification model of the EDON gateway (edon_gateway/): the policy     *)
(* evaluator (governor.py, policies.py), the governed handlers            *)
(* (main.py: /execute, /clawdbot/invoke), the Store (persistence/         *)
(* database.py), the authentication middleware (middleware/auth.py) and   *)
(* the connect-code routes (routes/integrations.py).                      *)
(***************************************************************************)
EXTENDS Integers, Sequences, FiniteSets, TLC

VARIABLES
    \* ---- governed pipeline (main.py, governor.py, policies.py) ----
    now,                \* wall clock at the last handled request, seconds
    db_intents,         \* intents table: intent_id -> <<>> | <<intent>>
    active_preset,      \* active_policy_preset singleton: <<>> | <<pack name>>
    action_history,     \* PolicyEngine.action_history
    audit_events,       \* audit_events table (append only)
    decisions,          \* decisions table (set of rows keyed by decision_id)
    connector_calls,    \* calls that reached a connector
    next_action_id,     \* source of fresh Action.id values (uuid4)
    PERSIST_DECISIONS,  \* env EDON_PERSIST_DECISIONS
    last,               \* what the last handled request did
    \* ---- evaluator called on its own (governor.py) ----
    ev_in,              \* the (action, intent, history) of the call
    ev_out,             \* <<>> before the call, <<result>> after it
    ev_again,           \* <<result>> of a second call on the same inputs
    \* ---- GET /decisions/query (main.py, database.py) ----
    dq_out,             \* <<>> | <<response of the last query>>
    \* ---- intent selection of POST /clawdbot/invoke ----
    default_intent_id,  \* tenants.default_intent_id of tenant t1: <<>> | <<id>>
    ci_in,              \* <<>> | <<header, tenant and downstream outcome of the
                        \*          last /clawdbot/invoke>>
    \* ---- one governor over a sequence of submissions (governor.py) ----
    pe_history,         \* PolicyEngine.action_history
    pe_now,             \* wall clock, seconds
    pe_n,               \* number of submissions so far
    pe_last,            \* <<>> | <<the last submission and its decision>>
    \* ---- requests inside RateLimitMiddleware.dispatch at the same time ----
    ad_co,              \* per request in flight: position inside dispatch
    ad_admitted,        \* subject -> number of requests answered 2xx
    ad_next,            \* number of requests received so far
    \* ---- credential store (database.py, clawdbot_connector.py) ----
    credentials,        \* credentials table, in rowid order
    cred_out,           \* what the last credential operation returned
    cred_replaced,      \* the row the last save displaced: <<>> | <<row>>
    \* ---- authentication (middleware/auth.py, tenancy.py) ----
    cfg,                \* Config: the environment the process started with
    tenants,            \* tenants table: tenant_id -> row
    api_keys,           \* api_keys table (set of rows)
    channel_tokens,     \* channel_tokens table (set of rows)
    auth_out,           \* what the last pipeline pass did with its request
    \* ---- connect codes (routes/integrations.py, database.py) ----
    connect_service_codes,  \* connect_service_codes table: code -> row
    connect_codes,          \* connect_codes table: code -> row
    channel_bindings,       \* channel_bindings table (set of rows)
    issued_tokens,          \* channel tokens created by verify-code
    svc_credentials,        \* credentials saved by the connect submit routes
    workers,                \* per worker process: position inside verify-code
    conn_now,               \* wall clock of the connect routes, seconds
    conn_out,               \* outcome log of redemption attempts
    \* ---- middleware pipeline (main.py, middleware/*.py) ----
    counters,           \* counters table: key -> <<>> | <<value>>
    tenant_usage,       \* tenant_usage table for today: tenant_id -> <<>> | <<n>>
    pipe_now,           \* wall clock of the pipeline, minutes
    pipe_out,           \* the response to the last request
    \* ---- concurrent counter increments (rate_limit.py, database.py) ----
    ctr_workers,        \* per worker: position inside increment_rate_limit
    ctr_txn,            \* the open write transaction: <<>> | <<[owner, table]>>
    ctr_prior,          \* the counter value before the increments
    \* ---- users and tenants of Clerk subjects (middleware/auth.py) ----
    su_users,           \* users table (set of rows)
    su_tenants,         \* tenants table (set of rows)
    su_workers,         \* per worker: position inside resolve_tenant_for_clerk
    su_next,            \* number of uuid4 values drawn so far
    \* ---- the action history under concurrent requests (policies.py) ----
    h_history,          \* PolicyEngine.action_history
    h_co,               \* per request coroutine: position inside evaluate
    h_running,          \* the coroutine the event loop is running: <<>> | <<w>>
    h_expect,           \* the history that one-at-a-time evaluation produces
    h_next,             \* number of requests received so far
    \* ---- the Clerk JWKS cache (middleware/auth.py) ----
    j_cache,            \* _JWKS_CACHE: [keys, fetched_at]
    j_remote,           \* the key ids the JWKS endpoint publishes
    j_co,               \* per request coroutine: position inside verify_clerk_token
    j_running,          \* the coroutine the event loop is running: <<>> | <<w>>
    j_now,              \* time.time()
    j_next              \* number of requests received so far

vars_exec == <<now, db_intents, active_preset, action_history, audit_events,
               decisions, connector_calls, next_action_id, PERSIST_DECISIONS, last>>
vars_cred == <<credentials, cred_out, cred_replaced>>
vars_auth == <<cfg, tenants, api_keys, channel_tokens, auth_out>>
vars_conn == <<connect_service_codes, connect_codes, channel_bindings, issued_tokens,
               svc_credentials, workers, conn_now, conn_out>>
vars_eval == <<ev_in, ev_out, ev_again>>
vars_pipe == <<counters, tenant_usage, pipe_now, pipe_out>>
vars_ctr == <<ctr_workers, ctr_txn, ctr_prior>>
vars_su == <<su_users, su_tenants, su_workers, su_next>>
vars_hist == <<h_history, h_co, h_running, h_expect, h_next>>
vars_jwks == <<j_cache, j_remote, j_co, j_running, j_now, j_next>>
vars_dq == <<dq_out>>
vars_ci == <<default_intent_id, ci_in>>
vars_pe == <<pe_history, pe_now, pe_n, pe_last>>
vars_ad == <<ad_co, ad_admitted, ad_next>>
vars_late == <<vars_dq, vars_ci, vars_pe, vars_ad>>
vars_more == <<vars_pipe, vars_ctr, vars_su, vars_hist, vars_jwks, vars_late>>
rest_pipe == <<vars_ctr, vars_su, vars_hist, vars_jwks, vars_late>>
rest_ctr == <<vars_su, vars_hist, vars_jwks, vars_late>>
rest_su == <<vars_pipe, vars_ctr, vars_hist, vars_jwks, vars_late>>
rest_hist == <<vars_pipe, vars_ctr, vars_su, vars_jwks, vars_late>>
rest_jwks == <<vars_pipe, vars_ctr, vars_su, vars_hist, vars_late>>
rest_late == <<vars_pipe, vars_ctr, vars_su, vars_hist, vars_jwks, vars_pe, vars_ad>>
rest_pe == <<vars_pipe, vars_ctr, vars_su, vars_hist, vars_jwks, vars_dq, vars_ci, vars_ad>>
rest_ad == <<vars_ctr, vars_su, vars_hist, vars_jwks, vars_dq, vars_ci, vars_pe>>
vars == <<vars_exec, vars_eval, vars_cred, vars_auth, vars_conn, vars_more>>

(***************************************************************************)
(* Bounds of the model.                                                    *)
(***************************************************************************)
MaxRequests == 2
MaxSaves == 3
MaxAttempts == 2
MaxWorkers == 2
MaxTtlPeriods == 1
MaxMinutes == 2
MaxUuids == 6
MaxEvaluations == 3
MaxJwtRequests == 3
MaxAnonymousPerMinute == 1
MaxAgentPerMinute == 2
MaxSubmissions == 4
MaxArrivals == 4
MaxClock == 61

(***************************************************************************)
(* Text.  Python strings that the code searches (lower(), `in`) are        *)
(* sequences of tokens; a pattern occurs in a text when it equals the      *)
(* lower-cased form of one of its tokens.                                  *)
(***************************************************************************)
Lower(tok) ==
    CASE tok = "RM -RF" -> "rm -rf"
      [] tok = "Share" -> "share"
      [] tok = "Email" -> "email"
      [] tok = "ALLOW" -> "allow"
      [] OTHER -> tok

ContainsAny(text, patterns) ==
    \E i \in 1..Len(text) : Lower(text[i]) \in patterns

(***************************************************************************)
(* schemas/__init__.py                                                     *)
(***************************************************************************)
RiskLevel == {"low", "medium", "high", "critical"}
Tool == {"email", "shell", "file", "clawdbot"}
Verdict == {"ALLOW", "BLOCK", "ESCALATE", "DEGRADE", "PAUSE", "error"}

allows_tool_op_MissingToolAllows(intent, tool, op) ==
    tool \in DOMAIN intent.scope => op \in intent.scope[tool]

\* IntentContract.allows_tool_op: scope is a function tool -> set of ops,
\* a tool without entry maps to the empty set
allows_tool_op(intent, tool, op) ==
    /\ tool \in DOMAIN intent.scope
    /\ op \in intent.scope[tool]

(***************************************************************************)
(* policies.py: PolicyConfig and PolicyEngine                              *)
(***************************************************************************)
max_actions_per_minute == 3
loop_detection_window_seconds == 60
loop_detection_threshold == 2
work_hours_start == 8
work_hours_end == 18
escalate_risk_levels == {"high", "critical"}
dangerous_shell_commands == {"rm -rf", "format", "del /f /s /q", "shutdown", "reboot"}
external_sharing_patterns == {"export", "upload", "share", "send_to", "external"}
HistoryRetention == 3600
RateWindow == 60

Hour(ts) == (ts \div 3600) % 24

is_work_hours(ts) ==
    /\ work_hours_start <= Hour(ts)
    /\ Hour(ts) < work_hours_end

check_rate_limit_Above(history, current_time) ==
    LET cutoff_time == current_time - RateWindow
        recent_actions == SelectSeq(history, LAMBDA h : h.ts >= cutoff_time)
    IN  Len(recent_actions) > max_actions_per_minute

detect_loop_Above(history, tool, op, params_hash, current_time) ==
    LET window_start == current_time - loop_detection_window_seconds
        matching_actions == SelectSeq(history, LAMBDA h :
             /\ h.ts >= window_start
             /\ h.tool = tool
             /\ h.op = op
             /\ h.params_hash = params_hash)
    IN  Len(matching_actions) > loop_detection_threshold

detect_loop_WholeHistory(history, tool, op, params_hash, current_time) ==
    LET matching_actions == SelectSeq(history, LAMBDA h :
             /\ h.tool = tool
             /\ h.op = op
             /\ h.params_hash = params_hash)
    IN  Len(matching_actions) >= loop_detection_threshold

check_rate_limit(history, current_time) ==
    LET cutoff_time == current_time - RateWindow
        recent_actions == SelectSeq(history, LAMBDA h : h.ts >= cutoff_time)
    IN  Len(recent_actions) >= max_actions_per_minute

detect_loop(history, tool, op, params_hash, current_time) ==
    LET window_start == current_time - loop_detection_window_seconds
        matching_actions == SelectSeq(history, LAMBDA h :
             /\ h.ts >= window_start
             /\ h.tool = tool
             /\ h.op = op
             /\ h.params_hash = params_hash)
    IN  Len(matching_actions) >= loop_detection_threshold

is_dangerous_command(command) ==
    ContainsAny(command, dangerous_shell_commands)

\* str(sorted(params.items())): the canonical serialisation of the params
ParamsHash(params) == <<"sorted_items", params>>

\* the tokens of op.lower() / str(params).lower() that the patterns can hit
OpText(op) ==
    CASE op = "share_file" -> <<"share", "file">>
      [] OTHER -> <<op>>

ParamsText(params) == params.command \o params.tool \o params.recipients.items

is_external_sharing(op, params) ==
    \/ ContainsAny(OpText(op), external_sharing_patterns)
    \/ ContainsAny(ParamsText(params), external_sharing_patterns)

record_action(history, action, current_time) ==
    LET appended == Append(history,
                       [ts |-> current_time, tool |-> action.tool, op |-> action.op,
                        params_hash |-> ParamsHash(action.params)])
        cutoff == current_time - HistoryRetention
    IN  SelectSeq(appended, LAMBDA h : h.ts >= cutoff)

(***************************************************************************)
(* governor.py: EDONGovernor                                               *)
(***************************************************************************)
action_keywords(tool) ==
    CASE tool = "email" -> {"email", "inbox", "message", "mail"}
      [] tool = "shell" -> {"command", "system", "terminal"}
      [] tool = "file" -> {"file", "document", "folder"}
      [] OTHER -> {}

_check_intent_alignment(action, intent) ==
    LET keywords == action_keywords(action.tool)
    IN  \/ ContainsAny(intent.objective.words, keywords)
        \/ keywords = {}

MkDecision(verdict, reason_code, explanation) ==
    [verdict |-> verdict, reason_code |-> reason_code, explanation |-> explanation,
     safe_alternative |-> <<>>, required_confirmation |-> FALSE,
     policy_version |-> "1.0.0",
     escalation_question |-> <<>>, escalation_options |-> <<>>]

\* Action.source left to its default
DraftAction_DefaultSource(action, computed_risk, extra_tags, fresh_id) ==
    [id |-> fresh_id, tool |-> action.tool, op |-> "draft", params |-> action.params,
     requested_at |-> action.requested_at, source |-> "agent",
     tags |-> action.tags \o extra_tags,
     estimated_risk |-> "low", computed_risk |-> <<computed_risk>>]

\* Action(tool, op="draft", params.copy(), requested_at, source, tags + extra,
\* computed_risk): a new Action, so a fresh id and the default estimated_risk
DraftAction(action, computed_risk, extra_tags, fresh_id) ==
    [id |-> fresh_id, tool |-> action.tool, op |-> "draft", params |-> action.params,
     requested_at |-> action.requested_at, source |-> action.source,
     tags |-> action.tags \o extra_tags,
     estimated_risk |-> "low", computed_risk |-> <<computed_risk>>]

ComputedRisk_EstimateOnly(action) == action.estimated_risk

ComputedRisk(action) ==
    IF action.tool = "shell" /\ is_dangerous_command(action.params.command)
    THEN "critical"
    ELSE action.estimated_risk

RecipientCount(recipients) ==
    IF recipients.kind \in {"list", "str"} THEN Len(recipients.items) ELSE 1

Done_Recording(action, history, decision) ==
    [raised |-> FALSE, decision |-> <<decision>>,
     history |-> record_action(history, action, action.requested_at), action |-> action]

\* return Decision(...): the decision, the engine's history as the call leaves
\* it, and the action with computed_risk filled in
Done(action, history, decision) ==
    [raised |-> FALSE, decision |-> <<decision>>, history |-> history, action |-> action]

Raised(action, history) ==
    [raised |-> TRUE, decision |-> <<>>, history |-> history, action |-> action]

\* steps 7..11 of evaluate, after history has been recorded and the loop and
\* rate checks have passed
EvaluateTail(act, intent, history, fresh_id) ==
    LET c == intent.constraints
        computed_risk == act.computed_risk[1]
        recipient_count == RecipientCount(act.params.recipients)
    IN
    IF act.tool = "shell" /\ is_dangerous_command(act.params.command)
    THEN Done(act, history, MkDecision("BLOCK", "RISK_TOO_HIGH", "dangerous shell command"))
    ELSE IF c.no_external_sharing /\ is_external_sharing(act.op, act.params)
    THEN Done(act, history, MkDecision("BLOCK", "DATA_EXFIL", "external sharing"))
    ELSE IF c.max_recipients.set /\ c.max_recipients.typ # "int"
    THEN Raised(act, history)      \* int > str raises TypeError
    ELSE IF /\ c.max_recipients.set
            /\ recipient_count > c.max_recipients.n
            /\ act.op = "send"
    THEN Done(act, history,
              [MkDecision("ESCALATE", "NEED_CONFIRMATION", "recipient count exceeds max")
                 EXCEPT !.safe_alternative =
                            <<DraftAction(act, computed_risk,
                                          <<"degraded", "too_many_recipients">>, fresh_id)>>,
                        !.required_confirmation = TRUE,
                        !.escalation_question = <<"send to many recipients?">>,
                        !.escalation_options = <<"allow_once", "draft_only", "keep_blocking">>])
    ELSE IF /\ computed_risk \in escalate_risk_levels
            /\ ~(intent.approved_by_user /\ computed_risk = "high")
    THEN Done(act, history,
              [MkDecision("ESCALATE", "NEED_CONFIRMATION", "high or critical risk")
                 EXCEPT !.required_confirmation = TRUE])
    ELSE IF ~_check_intent_alignment(act, intent)
    THEN IF intent.objective.len < 15 /\ c.escalate_on_ambiguous_intent
         THEN Done(act, history,
                   [MkDecision("ESCALATE", "NEED_CONFIRMATION", "intent is ambiguous")
                      EXCEPT !.required_confirmation = TRUE,
                             !.escalation_question = <<"what would you like to do?">>,
                             !.escalation_options = <<"clarify", "keep_blocking">>])
         ELSE Done(act, history, MkDecision("BLOCK", "INTENT_MISMATCH", "not aligned"))
    ELSE Done(act, history, MkDecision("ALLOW", "APPROVED", "approved"))

clawdbot_tool_allowed_Any(allowed_tools, underlying_tool) == TRUE

\* step 2.5: an empty allowed_clawdbot_tools sets no constraint; otherwise
\* `underlying_tool in allowed_tools`
clawdbot_tool_allowed(allowed_tools, underlying_tool) ==
    \/ allowed_tools = <<>>
    \/ \E i \in 1..Len(allowed_tools) : allowed_tools[i] = underlying_tool

\* EDONGovernor.evaluate(action, intent) against the engine's history.
\* Result: the Decision (or the fact that an exception left the call), the
\* history afterwards, and the action with computed_risk filled in.
evaluate(action, intent, history, fresh_id) ==
    LET current_time == action.requested_at
        computed_risk == ComputedRisk(action)
        act == [action EXCEPT !.computed_risk = <<computed_risk>>]
        c == intent.constraints
        scope_violation == ~allows_tool_op(intent, act.tool, act.op)
        underlying_tool == IF act.params.tool = <<>> THEN "" ELSE act.params.tool[1]
        allowed_tools == c.allowed_clawdbot_tools
        recorded == record_action(history, act, current_time)
    IN
    IF c.drafts_only /\ act.tool = "email" /\ act.op = "send"
    THEN Done(act, history,
              [MkDecision("DEGRADE", "DEGRADED_TO_SAFE_ALTERNATIVE", "drafts_only")
                 EXCEPT !.safe_alternative =
                            <<DraftAction(act, computed_risk, <<"degraded">>, fresh_id)>>])
    ELSE IF scope_violation
    THEN IF computed_risk = "critical"
         THEN Done(act, history, MkDecision("BLOCK", "RISK_TOO_HIGH", "dangerous, out of scope"))
         ELSE Done(act, history, MkDecision("BLOCK", "SCOPE_VIOLATION", "not in scope"))
    ELSE IF /\ act.tool = "clawdbot" /\ act.op = "invoke"
            /\ ~clawdbot_tool_allowed(allowed_tools, underlying_tool)
    THEN Done(act, history, MkDecision("BLOCK", "SCOPE_VIOLATION", "clawdbot tool not allowed"))
    ELSE IF c.work_hours_only /\ ~is_work_hours(current_time)
    THEN Done(act, history, MkDecision("BLOCK", "OUT_OF_HOURS", "outside work hours"))
    ELSE IF detect_loop(recorded, act.tool, act.op, ParamsHash(act.params), current_time)
    THEN Done(act, recorded, MkDecision("PAUSE", "LOOP_DETECTED", "loop detected"))
    ELSE IF check_rate_limit(recorded, current_time)
    THEN Done(act, recorded, MkDecision("PAUSE", "RATE_LIMIT", "rate limit exceeded"))
    ELSE EvaluateTail(act, intent, recorded, fresh_id)

(***************************************************************************)
(* persistence/database.py: credentials table                              *)
(*   a row: [rowid, credential_id, tool_name, tenant_id, credential_type,  *)
(*           credential_data, last_used_at, last_error]                    *)
(*   tenant_id, last_used_at, last_error: <<>> is NULL, <<v>> a value      *)
(***************************************************************************)
NULL == <<>>

SameTenant(row_tenant, tenant_id) == row_tenant = tenant_id /\ tenant_id # NULL

MaxRowid(rows) ==
    IF rows = <<>> THEN 0
    ELSE CHOOSE m \in {rows[i].rowid : i \in 1..Len(rows)} :
             \A i \in 1..Len(rows) : rows[i].rowid <= m

save_credential_LowRowid(rows, credential_id, tool_name, credential_type, credential_data, tenant_id) ==
    LET kept == SelectSeq(rows, LAMBDA r :
                    ~(r.credential_id = credential_id /\ SameTenant(r.tenant_id, tenant_id)))
    IN  Append(kept, [rowid |-> 1 - MaxRowid(kept),
                      credential_id |-> credential_id, tool_name |-> tool_name,
                      tenant_id |-> tenant_id, credential_type |-> credential_type,
                      credential_data |-> credential_data,
                      last_used_at |-> NULL, last_error |-> NULL])

\* INSERT OR REPLACE on PRIMARY KEY (credential_id, tenant_id): a row with the
\* same non-NULL key is deleted first; NULL never conflicts with NULL
save_credential(rows, credential_id, tool_name, credential_type, credential_data, tenant_id) ==
    LET kept == SelectSeq(rows, LAMBDA r :
                    ~(r.credential_id = credential_id /\ SameTenant(r.tenant_id, tenant_id)))
    IN  Append(kept, [rowid |-> MaxRowid(kept) + 1,
                      credential_id |-> credential_id, tool_name |-> tool_name,
                      tenant_id |-> tenant_id, credential_type |-> credential_type,
                      credential_data |-> credential_data,
                      last_used_at |-> NULL, last_error |-> NULL])

TenantMatches_NullFallback(row_tenant, tenant_id) ==
    row_tenant = tenant_id \/ row_tenant = NULL

\* tenant_id = NULL matches only tenant_id IS NULL; otherwise tenant_id = ?
TenantMatches(row_tenant, tenant_id) == row_tenant = tenant_id

get_credential_Oldest(rows, credential_id, tool_name, tenant_id) ==
    LET hits == SelectSeq(rows, LAMBDA r :
                    /\ r.credential_id = credential_id
                    /\ (tool_name = "" \/ r.tool_name = tool_name)
                    /\ TenantMatches(r.tenant_id, tenant_id))
    IN  IF hits = <<>> THEN <<>>
        ELSE <<CHOOSE r \in {hits[i] : i \in 1..Len(hits)} :
                   \A i \in 1..Len(hits) : hits[i].rowid >= r.rowid>>

\* SELECT ... WHERE credential_id = ? [AND tool_name = ?] AND <tenant>
\* ORDER BY rowid DESC LIMIT 1;  tool_name = "" means no tool filter
get_credential(rows, credential_id, tool_name, tenant_id) ==
    LET hits == SelectSeq(rows, LAMBDA r :
                    /\ r.credential_id = credential_id
                    /\ (tool_name = "" \/ r.tool_name = tool_name)
                    /\ TenantMatches(r.tenant_id, tenant_id))
    IN  IF hits = <<>> THEN <<>>
        ELSE <<CHOOSE r \in {hits[i] : i \in 1..Len(hits)} :
                   \A i \in 1..Len(hits) : hits[i].rowid <= r.rowid>>

update_credential_last_used(rows, credential_id, tenant_id, ts) ==
    [i \in 1..Len(rows) |->
        IF rows[i].credential_id = credential_id /\ TenantMatches(rows[i].tenant_id, tenant_id)
        THEN [rows[i] EXCEPT !.last_used_at = <<ts>>]
        ELSE rows[i]]

\* err_safe = (error_message or "")[:500] if error_message else None: an
\* empty message is stored as NULL (the messages of the model are shorter
\* than 500 characters)
update_credential_status(rows, credential_id, tenant_id, success, error_message, ts) ==
    LET err_safe == IF error_message = "" THEN NULL ELSE <<error_message>>
    IN  [i \in 1..Len(rows) |->
            IF rows[i].credential_id = credential_id
               /\ TenantMatches(rows[i].tenant_id, tenant_id)
            THEN IF success
                 THEN [rows[i] EXCEPT !.last_used_at = <<ts>>, !.last_error = NULL]
                 ELSE [rows[i] EXCEPT !.last_error = err_safe]
            ELSE rows[i]]

\* the credential id that get_integration_status looks up
IntegrationCredentialId(tool_name, tenant_id) ==
    IF tenant_id # NULL THEN <<tool_name, "gateway", tenant_id[1]>>
    ELSE <<tool_name, "gateway">>

get_integration_status_AuthModeFromSecret(rows, tenant_id, tool_name) ==
    LET credential == get_credential(rows, IntegrationCredentialId(tool_name, tenant_id),
                                     tool_name, tenant_id)
    IN  IF credential = <<>>
        THEN [connected |-> FALSE, last_ok_at |-> NULL, last_error |-> NULL,
              base_url |-> NULL, auth_mode |-> NULL]
        ELSE [connected |-> credential[1].last_used_at # NULL,
              last_ok_at |-> credential[1].last_used_at,
              last_error |-> credential[1].last_error,
              base_url |-> credential[1].credential_data.base_url,
              auth_mode |-> credential[1].credential_data.secret]

\* Database.get_integration_status(tenant_id, tool_name)
get_integration_status(rows, tenant_id, tool_name) ==
    LET credential == get_credential(rows, IntegrationCredentialId(tool_name, tenant_id),
                                     tool_name, tenant_id)
    IN  IF credential = <<>>
        THEN [connected |-> FALSE, last_ok_at |-> NULL, last_error |-> NULL,
              base_url |-> NULL, auth_mode |-> NULL]
        ELSE [connected |-> credential[1].last_used_at # NULL,
              last_ok_at |-> credential[1].last_used_at,
              last_error |-> credential[1].last_error,
              base_url |-> credential[1].credential_data.base_url,
              auth_mode |-> IF credential[1].credential_data.auth_mode = NULL
                            THEN <<"token">>
                            ELSE credential[1].credential_data.auth_mode]

(***************************************************************************)
(* connectors/clawdbot_connector.py                                        *)
(***************************************************************************)
\* ClawdbotConnector.__init__ / _load_credentials: what the instance holds
ClawdbotLoad(rows, credential_id, tenant_id, config) ==
    LET cred == get_credential(rows, credential_id, "clawdbot", tenant_id)
        data == cred[1].credential_data
    IN  IF cred # <<>> /\ data.base_url # NULL /\ data.secret # NULL
        THEN [configured |-> TRUE, source |-> "db", base_url |-> data.base_url,
              secret |-> data.secret, rowid |-> cred[1].rowid]
        ELSE IF config.CREDENTIALS_STRICT
        THEN [configured |-> FALSE, source |-> "none", base_url |-> NULL,
              secret |-> NULL, rowid |-> 0]
        ELSE IF config.CLAWDBOT_GATEWAY_TOKEN # NULL
        THEN [configured |-> TRUE, source |-> "env", base_url |-> <<"env_url">>,
              secret |-> config.CLAWDBOT_GATEWAY_TOKEN, rowid |-> 0]
        ELSE [configured |-> FALSE, source |-> "none", base_url |-> NULL,
              secret |-> NULL, rowid |-> 0]

\* what the downstream gateway can do with one POST /tools/invoke: answer
\* {"ok": true}, answer 200 without ok, answer an HTTP error with a body,
\* answer an HTTP error with an empty body, or not answer at all (connection
\* refused, timeout)
Downstream == {"ok", "not_ok", "http_401", "http_500", "http_502_empty", "unreachable"}

\* the same with a refused connection treated as an ordinary failure
ClawdbotInvoke_UnreachableIsFailure(rows, conn, credential_id, tenant_id, downstream, ts) ==
    IF ~conn.configured
    THEN [result |-> "raise", posted |-> FALSE, rows |-> rows]
    ELSE CASE downstream = "ok" ->
                [result |-> "success", posted |-> TRUE,
                 rows |-> update_credential_status(rows, credential_id, tenant_id,
                                                   TRUE, "", ts)]
           [] downstream = "not_ok" ->
                [result |-> "failure", posted |-> TRUE,
                 rows |-> update_credential_status(rows, credential_id, tenant_id,
                                                   FALSE, "upstream error", ts)]
           [] downstream = "http_401" ->
                [result |-> "raise_401", posted |-> TRUE,
                 rows |-> update_credential_status(rows, credential_id, tenant_id,
                                                   FALSE, "http 401", ts)]
           [] downstream = "http_500" ->
                [result |-> "raise", posted |-> TRUE,
                 rows |-> update_credential_status(rows, credential_id, tenant_id,
                                                   FALSE, "http 500", ts)]
           [] downstream = "http_502_empty" ->
                [result |-> "raise", posted |-> TRUE,
                 rows |-> update_credential_status(rows, credential_id, tenant_id,
                                                   FALSE, "", ts)]
           [] OTHER ->
                [result |-> "failure", posted |-> TRUE,
                 rows |-> update_credential_status(rows, credential_id, tenant_id,
                                                   FALSE, "request failed", ts)]

\* ClawdbotConnector.invoke on a loaded instance.  result: "success",
\* "failure", "unavailable" are returned, "raise_401" / "raise" leave by a
\* RuntimeError; posted says whether the request went out
ClawdbotInvoke(rows, conn, credential_id, tenant_id, downstream, ts) ==
    IF ~conn.configured
    THEN [result |-> "raise", posted |-> FALSE, rows |-> rows]
    ELSE CASE downstream = "ok" ->
                [result |-> "success", posted |-> TRUE,
                 rows |-> update_credential_status(rows, credential_id, tenant_id,
                                                   TRUE, "", ts)]
           [] downstream = "not_ok" ->
                [result |-> "failure", posted |-> TRUE,
                 rows |-> update_credential_status(rows, credential_id, tenant_id,
                                                   FALSE, "upstream error", ts)]
           [] downstream = "http_401" ->
                [result |-> "raise_401", posted |-> TRUE,
                 rows |-> update_credential_status(rows, credential_id, tenant_id,
                                                   FALSE, "http 401", ts)]
           [] downstream = "http_500" ->
                [result |-> "raise", posted |-> TRUE,
                 rows |-> update_credential_status(rows, credential_id, tenant_id,
                                                   FALSE, "http 500", ts)]
           [] downstream = "http_502_empty" ->
                [result |-> "raise", posted |-> TRUE,
                 rows |-> update_credential_status(rows, credential_id, tenant_id,
                                                   FALSE, "", ts)]
           [] OTHER ->
                [result |-> "unavailable", posted |-> TRUE,
                 rows |-> update_credential_status(rows, credential_id, tenant_id,
                                                   FALSE, "request failed", ts)]

(***************************************************************************)
(* persistence/database.py: audit_events and decisions                     *)
(***************************************************************************)
DecisionId(action_id, ts) == <<"dec", action_id, ts>>

\* Database.save_audit_event: one INSERT into audit_events and one INSERT OR
\* REPLACE into decisions, committed together
save_audit_event(audit, decs, action, decision, intent_id, agent_id, ts) ==
    LET decision_id == DecisionId(action.id, ts)
        row == [timestamp |-> action.requested_at, action_id |-> action.id,
                action_tool |-> action.tool, action_op |-> action.op,
                decision_verdict |-> decision.verdict,
                decision_reason_code |-> decision.reason_code,
                intent_id |-> intent_id, agent_id |-> agent_id, created_at |-> ts]
        drow == [decision_id |-> decision_id, action_id |-> action.id,
                 verdict |-> decision.verdict, reason_code |-> decision.reason_code,
                 intent_id |-> intent_id, agent_id |-> agent_id, created_at |-> ts]
    IN  [audit |-> Append(audit, row),
         decs |-> {d \in decs : d.decision_id # decision_id} \cup {drow},
         decision_id |-> decision_id]

\* verdict_map of query_decisions: the stored verdict in the form the UI uses
VerdictUi(verdict) ==
    CASE verdict = "ALLOW" -> "allowed"
      [] verdict = "BLOCK" -> "blocked"
      [] verdict \in {"ESCALATE", "DEGRADE", "PAUSE"} -> "confirm"
      [] verdict = "error" -> "error"
      [] OTHER -> "unknown"

\* FROM decisions d LEFT JOIN audit_events a ON d.action_id = a.action_id
\* WHERE <filters that were given>; a = 0 stands for the all-NULL right side
JoinedRows(decs, audit, action_id, verdict, intent_id, agent_id) ==
    LET kept == {d \in decs :
                    /\ action_id = <<>> \/ d.action_id = action_id[1]
                    /\ verdict = <<>> \/ d.verdict = verdict[1]
                    /\ intent_id = <<>> \/ d.intent_id = intent_id[1]
                    /\ agent_id = <<>> \/ d.agent_id = agent_id[1]}
        matches(d) == {i \in 1..Len(audit) : audit[i].action_id = d.action_id}
    IN  UNION {{[d |-> d, a |-> i] : i \in IF matches(d) = {} THEN {0} ELSE matches(d)} :
                   d \in kept}

DecisionItem(j, audit) ==
    [id |-> j.d.decision_id, decision_id |-> j.d.decision_id,
     action_id |-> j.d.action_id, verdict |-> VerdictUi(j.d.verdict),
     reason_code |-> j.d.reason_code, created_at |-> j.d.created_at,
     tool |-> IF j.a = 0 THEN <<>>
              ELSE <<[name |-> audit[j.a].action_tool, op |-> audit[j.a].action_op]>>]

\* the same query with the action_id filter left out
query_decisions_NoActionFilter(decs, audit, action_id, verdict, intent_id, agent_id, limit) ==
    LET rows == JoinedRows(decs, audit, <<>>, verdict, intent_id, agent_id)
        n == Cardinality(rows)
        shown == IF n < limit THEN n ELSE limit
        orders == {s \in [1..n -> rows] :
                      /\ \A i, k \in 1..n : i # k => s[i] # s[k]
                      /\ \A i \in 1..(n - 1) : s[i].d.created_at >= s[i + 1].d.created_at}
    IN  {[i \in 1..shown |-> DecisionItem(s[i], audit)] : s \in orders}

\* Database.query_decisions: the result lists the query can return, one for
\* each order ORDER BY d.created_at DESC admits, cut at LIMIT
query_decisions(decs, audit, action_id, verdict, intent_id, agent_id, limit) ==
    LET rows == JoinedRows(decs, audit, action_id, verdict, intent_id, agent_id)
        n == Cardinality(rows)
        shown == IF n < limit THEN n ELSE limit
        orders == {s \in [1..n -> rows] :
                      /\ \A i, k \in 1..n : i # k => s[i] # s[k]
                      /\ \A i \in 1..(n - 1) : s[i].d.created_at >= s[i + 1].d.created_at}
    IN  {[i \in 1..shown |-> DecisionItem(s[i], audit)] : s \in orders}

(***************************************************************************)
(* main.py: governed handlers                                              *)
(***************************************************************************)
NoParams == [command |-> <<>>, tool |-> <<>>,
             recipients |-> [kind |-> "list", items |-> <<>>]]

DefaultIntent ==
    [objective |-> [words |-> <<"Default", "intent">>, len |-> 14],
     scope |-> <<>>,
     constraints |-> [drafts_only |-> FALSE, allowed_clawdbot_tools |-> <<>>,
                      work_hours_only |-> FALSE, no_external_sharing |-> FALSE,
                      max_recipients |-> [set |-> FALSE, typ |-> "int", n |-> 0],
                      escalate_on_ambiguous_intent |-> FALSE],
     risk_level |-> "medium", approved_by_user |-> FALSE]

\* policy_packs.py: CASUAL_USER.to_intent_dict()
CasualUserIntent ==
    [objective |-> [words |-> <<"Casual", "User", "Ultra-safe", "everyday", "use">>,
                    len |-> 37],
     scope |-> [t \in {"clawdbot"} |-> {"invoke"}],
     constraints |-> [drafts_only |-> FALSE,
                      allowed_clawdbot_tools |->
                          <<"message", "web_read", "web_summarize", "web_draft", "web_search">>,
                      work_hours_only |-> FALSE, no_external_sharing |-> TRUE,
                      max_recipients |-> [set |-> TRUE, typ |-> "int", n |-> 1],
                      escalate_on_ambiguous_intent |-> FALSE],
     risk_level |-> "low", approved_by_user |-> TRUE]

Executable_AllButBlock(verdict) == verdict # "BLOCK"

\* the verdicts on which a handler goes on to the connector
Executable(verdict) == verdict \in {"ALLOW", "DEGRADE"}

\* the action that execute_action hands to _execute_tool
ActionToExecute(action, decision) == action

\* _execute_tool(action): only the email tool has a connector behind it.
\* io: whether the connector's write succeeds
_execute_tool(rows, action, config, io, ts) ==
    IF action.tool = "email"
    THEN LET credential == get_credential(rows, <<"email_gateway">>, "", NULL)
             op == IF action.op = "send" THEN "send" ELSE "draft"
         IN  IF credential = <<>> /\ config.CREDENTIALS_STRICT
             THEN [status_code |-> 503, calls |-> <<>>, rows |-> rows]
             ELSE LET rows2 == IF credential = <<>> THEN rows
                               ELSE update_credential_last_used(rows, <<"email_gateway">>,
                                                                NULL, ts)
                  IN  [status_code |-> IF io THEN 200 ELSE 503,
                       calls |-> <<[action_id |-> action.id, connector |-> "email",
                                    op |-> op]>>,
                       rows |-> rows2]
    ELSE [status_code |-> 200, calls |-> <<>>, rows |-> rows]

NoResult(endpoint, status_code) ==
    [n |-> last.n + 1, endpoint |-> endpoint, status |-> status_code,
     verdict |-> "none", reason_code |-> "none", action_id |-> 0, calls |-> <<>>,
     intent |-> DefaultIntent, op |-> "none", tool |-> "none", evaluated |-> FALSE,
     response |-> "none", persisted |-> FALSE]

\* POST /execute.  req: [agent_id, valid, tool, op, params, intent_id];
\* db_ok: whether the Store accepts the audit write; io: see _execute_tool;
\* ts: the clock when the request is handled
execute_action(req, db_ok, io, ts) ==
    IF req.agent_id = "" \/ ~req.valid
    THEN [last |-> NoResult("/execute", 400), history |-> action_history,
          audit |-> audit_events, decs |-> decisions, calls |-> <<>>,
          rows |-> credentials]
    ELSE IF req.tool \notin Tool                    \* Tool(...) raises ValueError
    THEN [last |-> NoResult("/execute", 500), history |-> action_history,
          audit |-> audit_events, decs |-> decisions, calls |-> <<>>,
          rows |-> credentials]
    ELSE
    LET found == /\ req.intent_id # NULL
                 /\ req.intent_id[1] \in DOMAIN db_intents
                 /\ db_intents[req.intent_id[1]] # <<>>
        intent == IF found THEN db_intents[req.intent_id[1]][1] ELSE DefaultIntent
        intent_id_for_audit == IF found THEN req.intent_id ELSE NULL
        action == [id |-> next_action_id, tool |-> req.tool, op |-> req.op,
                   params |-> req.params, requested_at |-> ts, source |-> "agent",
                   tags |-> <<>>, estimated_risk |-> "low", computed_risk |-> <<>>]
        r == evaluate(action, intent, action_history, next_action_id + 1)
        decision == r.decision[1]
        saved == IF db_ok
                 THEN save_audit_event(audit_events, decisions, r.action, decision,
                                       intent_id_for_audit, req.agent_id, ts)
                 ELSE [audit |-> audit_events, decs |-> decisions,
                       decision_id |-> DecisionId(action.id, ts)]
        ex == _execute_tool(credentials, ActionToExecute(r.action, decision), cfg, io, ts)
        res == [n |-> last.n + 1, endpoint |-> "/execute", status |-> 200,
                verdict |-> decision.verdict, reason_code |-> decision.reason_code,
                action_id |-> action.id, calls |-> <<>>, intent |-> intent,
                op |-> req.op, tool |-> req.tool, evaluated |-> TRUE,
                response |-> decision.verdict, persisted |-> db_ok]
    IN
    IF r.raised
    THEN [last |-> [NoResult("/execute", 500) EXCEPT !.action_id = action.id,
                                                      !.intent = intent,
                                                      !.op = req.op, !.tool = req.tool],
          history |-> r.history, audit |-> audit_events, decs |-> decisions,
          calls |-> <<>>, rows |-> credentials]
    ELSE IF ~Executable(decision.verdict)
    THEN [last |-> res, history |-> r.history, audit |-> saved.audit,
          decs |-> saved.decs, calls |-> <<>>, rows |-> credentials]
    ELSE [last |-> [res EXCEPT !.status = ex.status_code, !.calls = ex.calls],
          history |-> r.history, audit |-> saved.audit, decs |-> saved.decs,
          calls |-> ex.calls, rows |-> ex.rows]

DEFAULT_CLAWDBOT_CREDENTIAL_ID == <<"clawdbot", "gateway", "tenant_dev">>

\* POST /clawdbot/invoke.  req: [tool, x_intent_id, credential_id];
\* tenant_id: what get_request_tenant_id returns for the request
clawdbot_invoke_proxy(req, tenant_id, db_ok, downstream, ts) ==
    LET agent_id == "clawdbot-agent"
        action == [id |-> next_action_id, tool |-> "clawdbot", op |-> "invoke",
                   params |-> [NoParams EXCEPT !.tool = <<req.tool>>],
                   requested_at |-> ts, source |-> "clawdbot",
                   tags |-> <<"clawdbot-proxy">>, estimated_risk |-> "low",
                   computed_risk |-> <<>>]
        found == /\ req.x_intent_id # NULL
                 /\ req.x_intent_id[1] \in DOMAIN db_intents
                 /\ db_intents[req.x_intent_id[1]] # <<>>
        intent_contract ==
            IF req.x_intent_id # NULL
            THEN IF found THEN db_intents[req.x_intent_id[1]][1] ELSE DefaultIntent
            ELSE IF active_preset = <<"casual_user">> THEN CasualUserIntent
            ELSE DefaultIntent
        r == evaluate(action, intent_contract, action_history, next_action_id + 1)
        decision == r.decision[1]
        saved == save_audit_event(audit_events, decisions, r.action, decision,
                                  req.x_intent_id, agent_id, ts)
        credential_id == IF req.credential_id # NULL THEN req.credential_id[1]
                         ELSE DEFAULT_CLAWDBOT_CREDENTIAL_ID
        conn == ClawdbotLoad(credentials, credential_id, tenant_id, cfg)
        inv == ClawdbotInvoke(credentials, conn, credential_id, tenant_id, downstream, ts)
        calls == IF inv.posted
                 THEN <<[action_id |-> action.id, connector |-> "clawdbot",
                         op |-> "invoke"]>>
                 ELSE <<>>
        res == [n |-> last.n + 1, endpoint |-> "/clawdbot/invoke", status |-> 200,
                verdict |-> decision.verdict, reason_code |-> decision.reason_code,
                action_id |-> action.id, calls |-> <<>>, intent |-> intent_contract,
                op |-> "invoke", tool |-> "clawdbot", evaluated |-> TRUE,
                response |-> decision.verdict, persisted |-> PERSIST_DECISIONS]
        audit2 == IF PERSIST_DECISIONS THEN saved.audit ELSE audit_events
        decs2 == IF PERSIST_DECISIONS THEN saved.decs ELSE decisions
    IN
    IF r.raised
    THEN [last |-> [NoResult("/clawdbot/invoke", 200) EXCEPT
                        !.response = "error", !.action_id = action.id,
                        !.intent = intent_contract, !.op = "invoke",
                        !.tool = "clawdbot"],
          history |-> r.history, audit |-> audit_events, decs |-> decisions,
          calls |-> <<>>, rows |-> credentials]
    ELSE IF PERSIST_DECISIONS /\ ~db_ok       \* "Persistence failed" envelope
    THEN [last |-> [res EXCEPT !.persisted = FALSE], history |-> r.history,
          audit |-> audit_events, decs |-> decisions, calls |-> <<>>,
          rows |-> credentials]
    ELSE IF ~Executable(decision.verdict)
    THEN [last |-> res, history |-> r.history, audit |-> audit2, decs |-> decs2,
          calls |-> <<>>, rows |-> credentials]
    ELSE [last |-> [res EXCEPT
                      !.calls = calls,
                      !.status = CASE inv.result = "unavailable" -> 503
                                   [] inv.result = "raise_401" -> 401
                                   [] OTHER -> 200,
                      !.response = IF inv.result = "success" THEN decision.verdict
                                   ELSE "error"],
          history |-> r.history, audit |-> audit2, decs |-> decs2,
          calls |-> calls, rows |-> inv.rows]

(***************************************************************************)
(* The governed pipeline as a state machine: requests and their inputs     *)
(***************************************************************************)
NoConstraints == DefaultIntent.constraints

EmailObjective == [words |-> <<"Email", "triage", "for", "the", "team">>, len |-> 25]

IntentEmail ==
    [objective |-> EmailObjective,
     scope |-> [t \in {"email"} |-> {"send", "draft"}],
     constraints |-> NoConstraints, risk_level |-> "low", approved_by_user |-> TRUE]

IntentDrafts == [IntentEmail EXCEPT !.constraints.drafts_only = TRUE]

IntentDraftsNoScope == [IntentDrafts EXCEPT !.scope = <<>>]

IntentClawdbot ==
    [objective |-> [words |-> <<"Browse", "the", "web">>, len |-> 14],
     scope |-> [t \in {"clawdbot"} |-> {"invoke"}],
     constraints |-> [NoConstraints EXCEPT !.allowed_clawdbot_tools = <<"web_search">>],
     risk_level |-> "low", approved_by_user |-> TRUE]

\* constraints are free JSON: "max_recipients": "1" is accepted by /intent/set
IntentClawdbotStrMax ==
    [IntentClawdbot EXCEPT !.constraints.max_recipients =
                               [set |-> TRUE, typ |-> "str", n |-> 1]]

\* the intents that /intent/set stores in the pipeline runs
Intents == {IntentEmail, IntentDrafts, IntentClawdbotStrMax}

IntentIds == {"i1", "pack"}

OneRecipient == [NoParams EXCEPT !.recipients = [kind |-> "list", items |-> <<"a@x">>]]

ExecuteRequests ==
    { [agent_id |-> "agent1", valid |-> TRUE, tool |-> "email", op |-> o,
       params |-> OneRecipient, intent_id |-> <<"i1">>] :
          o \in {"send", "draft"} }
    \cup
    { [agent_id |-> "", valid |-> TRUE, tool |-> "email", op |-> "send",
       params |-> OneRecipient, intent_id |-> NULL],
      [agent_id |-> "agent1", valid |-> FALSE, tool |-> "email", op |-> "send",
       params |-> OneRecipient, intent_id |-> NULL],
      [agent_id |-> "agent1", valid |-> TRUE, tool |-> "fax", op |-> "send",
       params |-> OneRecipient, intent_id |-> <<"i1">>] }

ClawdbotRequests ==
    { [tool |-> t, x_intent_id |-> i, credential_id |-> NULL] :
          t \in {"web_search", "exec"}, i \in {NULL, <<"i1">>} }

Tenants == {"t1", "t2"}

BaseConfig ==
    [ENVIRONMENT |-> "production", AUTH_ENABLED |-> TRUE, CREDENTIALS_STRICT |-> TRUE,
     ALLOW_ENV_TOKEN_IN_PROD |-> FALSE, API_TOKEN |-> NULL, DEMO_MODE |-> FALSE,
     CLAWDBOT_GATEWAY_TOKEN |-> NULL, CLERK_CONFIGURED |-> TRUE,
     MAG_ENABLED |-> FALSE, RATE_LIMIT_ENABLED |-> TRUE]

DevConfig ==
    [BaseConfig EXCEPT !.ENVIRONMENT = "development", !.CREDENTIALS_STRICT = FALSE,
                       !.CLAWDBOT_GATEWAY_TOKEN = <<"env_secret">>]

SeedCredentials ==
    save_credential(
        save_credential(<<>>, <<"email_gateway">>, "email", "smtp",
                        [base_url |-> NULL, auth_mode |-> NULL, secret |-> <<"smtp_pw">>],
                        NULL),
        DEFAULT_CLAWDBOT_CREDENTIAL_ID, "clawdbot", "gateway",
        [base_url |-> <<"http://claw">>, auth_mode |-> <<"token">>,
         secret |-> <<"claw_secret">>],
        <<"t1">>)

Apply(out) ==
    /\ last' = out.last
    /\ action_history' = out.history
    /\ audit_events' = out.audit
    /\ decisions' = out.decs
    /\ connector_calls' = connector_calls \o out.calls
    /\ credentials' = out.rows
    /\ next_action_id' = next_action_id + 2

\* seconds between one request and the next
Delays == {0, 61}

Execute ==
    /\ last.n < MaxRequests
    /\ \E req \in ExecuteRequests, db_ok \in BOOLEAN, io \in BOOLEAN, d \in Delays :
           /\ now' = now + d
           /\ Apply(execute_action(req, db_ok, io, now + d))
    /\ UNCHANGED <<db_intents, active_preset, PERSIST_DECISIONS>>
    /\ UNCHANGED <<vars_eval, cred_out, cred_replaced, vars_auth, vars_conn, vars_more>>

ClawdbotInvokeProxy ==
    /\ last.n < MaxRequests
    /\ \E req \in ClawdbotRequests, tenant_id \in {NULL, <<"t1">>},
          db_ok \in BOOLEAN, downstream \in Downstream, d \in Delays :
           /\ now' = now + d
           /\ Apply(clawdbot_invoke_proxy(req, tenant_id, db_ok, downstream, now + d))
           /\ ci_in' = <<[x_intent_id |-> req.x_intent_id, tenant_id |-> tenant_id,
                           downstream |-> IF last'.calls # <<>> THEN downstream
                                          ELSE "none"]>>
    /\ UNCHANGED <<db_intents, active_preset, PERSIST_DECISIONS, default_intent_id>>
    /\ UNCHANGED <<vars_eval, cred_out, cred_replaced, vars_auth, vars_conn, rest_late, vars_dq>>

\* POST /intent/set with intent_id "i1": INSERT OR REPLACE into intents.
\* Only the first save under the id is explored.
SetIntent ==
    /\ db_intents["i1"] = <<>>
    /\ \E intent \in Intents : db_intents' = [db_intents EXCEPT !["i1"] = <<intent>>]
    /\ UNCHANGED <<now, active_preset, action_history, audit_events, decisions,
                   connector_calls, next_action_id, PERSIST_DECISIONS, last>>
    /\ UNCHANGED <<vars_eval, vars_cred, vars_auth, vars_conn, vars_more>>

\* POST /policy-packs/casual_user/apply
ApplyPolicyPack ==
    /\ active_preset = <<>>
    /\ db_intents' = [db_intents EXCEPT !["pack"] = <<CasualUserIntent>>]
    /\ active_preset' = <<"casual_user">>
    /\ UNCHANGED <<now, action_history, audit_events, decisions,
                   connector_calls, next_action_id, PERSIST_DECISIONS, last>>
    /\ UNCHANGED <<vars_eval, vars_cred, vars_auth, vars_conn, vars_more>>

\* GET /decisions/query: by the action_id of each request (a request takes
\* two fresh ids, one for its action and one for a safe alternative), by
\* verdict, with a small limit, and with a limit outside 1..1000
DecisionQueries ==
    {[action_id |-> <<2 * i - 1>>, verdict |-> <<>>, limit |-> 100] : i \in 1..MaxRequests}
    \cup {[action_id |-> <<>>, verdict |-> <<"BLOCK">>, limit |-> 100],
          [action_id |-> <<>>, verdict |-> <<>>, limit |-> 1],
          [action_id |-> <<>>, verdict |-> <<>>, limit |-> 0]}

QueryDecisions ==
    /\ \E q \in DecisionQueries :
          IF q.limit < 1 \/ q.limit > 1000
          THEN dq_out' = <<[status |-> 400, query |-> q, decisions |-> <<>>, total |-> 0]>>
          ELSE \E res \in query_decisions(decisions, audit_events, q.action_id, q.verdict,
                                          <<>>, <<>>, q.limit) :
                   dq_out' = <<[status |-> 200, query |-> q, decisions |-> res,
                                total |-> Len(res)]>>
    /\ UNCHANGED <<vars_exec, vars_eval, vars_cred, vars_auth, vars_conn, rest_late, vars_ci>>

\* 07:59:30, half a minute before the work hours begin
StartOfDay == work_hours_start * 3600 - 30

IdleEval == /\ ev_in = <<>> /\ ev_out = <<>> /\ ev_again = <<>>
IdleCred == /\ credentials = <<>> /\ cred_out = <<>> /\ cred_replaced = <<>>
IdleAuth == /\ cfg = BaseConfig /\ tenants = <<>> /\ api_keys = {}
            /\ channel_tokens = {} /\ auth_out = <<>>
IdlePipe == /\ counters = <<>> /\ tenant_usage = <<>> /\ pipe_now = 0 /\ pipe_out = <<>>
IdleCtr == /\ ctr_workers = <<>> /\ ctr_txn = <<>> /\ ctr_prior = 0
IdleSu == /\ su_users = {} /\ su_tenants = {} /\ su_workers = <<>> /\ su_next = 0
IdleHist ==
    /\ h_history = <<>> /\ h_co = <<>> /\ h_running = <<>> /\ h_expect = <<>> /\ h_next = 0
IdleJwks ==
    /\ j_cache = <<>> /\ j_remote = {} /\ j_co = <<>> /\ j_running = <<>>
    /\ j_now = 0 /\ j_next = 0
IdleDq == dq_out = <<>>
IdleCi == default_intent_id = <<>> /\ ci_in = <<>>
IdlePe == pe_history = <<>> /\ pe_now = 0 /\ pe_n = 0 /\ pe_last = <<>>
IdleAd == ad_co = <<>> /\ ad_admitted = <<>> /\ ad_next = 0
IdleLate == IdleDq /\ IdleCi /\ IdlePe /\ IdleAd
IdleMore == IdlePipe /\ IdleCtr /\ IdleSu /\ IdleHist /\ IdleJwks /\ IdleLate
IdleConn == /\ connect_service_codes = <<>> /\ connect_codes = <<>>
            /\ channel_bindings = {} /\ issued_tokens = <<>>
            /\ svc_credentials = <<>> /\ workers = <<>> /\ conn_now = 0
            /\ conn_out = <<>>

Init ==
    /\ now = StartOfDay
    /\ db_intents = [i \in IntentIds |-> <<>>]
    /\ active_preset = <<>>
    /\ action_history = <<>>
    /\ audit_events = <<>>
    /\ decisions = {}
    /\ connector_calls = <<>>
    /\ next_action_id = 1
    /\ PERSIST_DECISIONS \in BOOLEAN
    /\ last = [n |-> 0, endpoint |-> "none", status |-> 0, verdict |-> "none",
               reason_code |-> "none", action_id |-> 0, calls |-> <<>>,
               intent |-> DefaultIntent, op |-> "none", tool |-> "none",
               evaluated |-> FALSE, response |-> "none", persisted |-> FALSE]
    /\ credentials = SeedCredentials
    /\ cred_out = <<>>
    /\ cred_replaced = <<>>
    /\ cfg = BaseConfig
    /\ tenants = <<>> /\ api_keys = {} /\ channel_tokens = {} /\ auth_out = <<>>
    /\ IdleEval
    /\ IdleConn
    /\ IdleMore

Next == Execute \/ ClawdbotInvokeProxy \/ SetIntent \/ ApplyPolicyPack

Spec == Init /\ [][Next]_vars

\* Database.update_tenant_default_intent("t1", intent_id)
UpdateTenantDefaultIntent ==
    /\ default_intent_id = <<>>
    /\ \E intent_id \in IntentIds : default_intent_id' = <<intent_id>>
    /\ UNCHANGED <<vars_exec, vars_eval, vars_cred, vars_auth, vars_conn, rest_late,
                   vars_dq, ci_in>>

\* the intents a /clawdbot/invoke request can be evaluated against: stored
\* intents, the tenant's default intent id and the active preset
NextIntent == ClawdbotInvokeProxy \/ SetIntent \/ ApplyPolicyPack \/ UpdateTenantDefaultIntent

SpecIntent == Init /\ [][NextIntent]_vars

\* the delegated-tool proxy alone, under the intents and presets that can be
\* stored
NextProxy == ClawdbotInvokeProxy \/ SetIntent \/ ApplyPolicyPack

SpecProxy == Init /\ [][NextProxy]_vars

\* the decision ledger and its query: requests under the default intent or
\* the casual_user pack, and GET /decisions/query
NextQuery == Execute \/ ClawdbotInvokeProxy \/ ApplyPolicyPack \/ QueryDecisions

SpecQuery == Init /\ [][NextQuery]_vars

(***************************************************************************)
(* Properties of the governed pipeline                                     *)
(***************************************************************************)
CallsFor(action_id) ==
    SelectSeq(connector_calls, LAMBDA c : c.action_id = action_id)

AuditRowsFor(action_id) ==
    Len(SelectSeq(audit_events, LAMBDA e : e.action_id = action_id))

DecisionRowsFor(action_id) ==
    Cardinality({d \in decisions : d.action_id = action_id})

\* C1: a /execute or /clawdbot/invoke request whose decision verdict is not
\* ALLOW or DEGRADE (BLOCK, ESCALATE, PAUSE, or no decision at all because the
\* evaluation failed) leaves the list of connector calls as it was.
C1_NoConnectorUnlessExecutable ==
    [][ (last'.n = last.n + 1 /\ last'.verdict \notin {"ALLOW", "DEGRADE"})
            => connector_calls' = connector_calls ]_vars

\* a second request that was evaluated to a non-executable verdict after a
\* first one went through its connector
C1_Witness ==
    /\ last.n = 2
    /\ last.evaluated
    /\ last.verdict \in {"BLOCK", "PAUSE", "ESCALATE"}
    /\ Len(connector_calls) = 1
    /\ CallsFor(last.action_id) = <<>>

\* C4: when /execute gets DEGRADE for an email send under a drafts_only
\* intent, every connector operation of the request is a draft and no send
\* reaches the connector.
C4_DegradeRunsDraft ==
    ( /\ last.endpoint = "/execute"
      /\ last.verdict = "DEGRADE"
      /\ last.tool = "email" /\ last.op = "send"
      /\ last.intent.constraints.drafts_only )
    => \A i \in 1..Len(last.calls) : last.calls[i].op = "draft"

\* C5: after every /execute or /clawdbot/invoke request that was answered with
\* a verdict, the Store holds exactly one audit event and exactly one decision
\* row for the request's action.
C5_ExactlyOneRecord ==
    (last.n > 0 /\ last.response # "none")
    => /\ AuditRowsFor(last.action_id) = 1
       /\ DecisionRowsFor(last.action_id) = 1

(***************************************************************************)
(* The evaluator on its own: evaluate applied to an action, an intent and  *)
(* an engine history drawn from the sets below                             *)
(***************************************************************************)
ThreeRecipients ==
    [NoParams EXCEPT !.recipients = [kind |-> "list", items |-> <<"a@x", "b@x", "c@x">>]]

EvalShapes ==
    { [source |-> "agent", tool |-> "email", op |-> "send", params |-> OneRecipient],
      [source |-> "user", tool |-> "email", op |-> "send", params |-> OneRecipient],
      [source |-> "agent", tool |-> "email", op |-> "send", params |-> ThreeRecipients],
      [source |-> "agent", tool |-> "email", op |-> "draft", params |-> OneRecipient],
      [source |-> "agent", tool |-> "shell", op |-> "run",
       params |-> [NoParams EXCEPT !.command = <<"ls">>]],
      [source |-> "agent", tool |-> "shell", op |-> "run",
       params |-> [NoParams EXCEPT !.command = <<"RM -RF", "/">>]],
      [source |-> "agent", tool |-> "file", op |-> "read", params |-> NoParams],
      [source |-> "agent", tool |-> "file", op |-> "share_file", params |-> NoParams],
      [source |-> "clawdbot", tool |-> "clawdbot", op |-> "invoke",
       params |-> [NoParams EXCEPT !.tool = <<"web_search">>]],
      [source |-> "clawdbot", tool |-> "clawdbot", op |-> "invoke",
       params |-> [NoParams EXCEPT !.tool = <<"exec">>]] }

EvalTimes == {StartOfDay, StartOfDay + 30}

EvalActions ==
    { [id |-> 1, tool |-> sh.tool, op |-> sh.op, params |-> sh.params,
       requested_at |-> t, source |-> sh.source, tags |-> <<>>,
       estimated_risk |-> r, computed_risk |-> <<>>] :
          sh \in EvalShapes, t \in EvalTimes, r \in {"low", "high", "critical"} }

ScopeAll ==
    [t \in Tool |-> CASE t = "email" -> {"send", "draft"}
                      [] t = "shell" -> {"run"}
                      [] t = "file" -> {"read", "share_file"}
                      [] OTHER -> {"invoke"}]

EvalScopes == {<<>>, IntentEmail.scope, ScopeAll}

EvalObjectives == {EmailObjective, [words |-> <<"Misc">>, len |-> 4]}

EvalMaxRecipients ==
    { [set |-> FALSE, typ |-> "int", n |-> 0],
      [set |-> TRUE, typ |-> "int", n |-> 1],
      [set |-> TRUE, typ |-> "str", n |-> 1] }

EvalIntents ==
    { [objective |-> o, scope |-> sc,
       constraints |-> [drafts_only |-> d, allowed_clawdbot_tools |-> al,
                        work_hours_only |-> w, no_external_sharing |-> x,
                        max_recipients |-> m, escalate_on_ambiguous_intent |-> e],
       risk_level |-> "low", approved_by_user |-> ap] :
          o \in EvalObjectives, sc \in EvalScopes, d \in BOOLEAN,
          al \in {<<>>, <<"web_search">>}, w \in BOOLEAN, x \in BOOLEAN,
          m \in EvalMaxRecipients, e \in BOOLEAN, ap \in BOOLEAN }

\* engine histories at the time of the call: empty, one earlier unrelated
\* action, one earlier occurrence of the same action, and two earlier
\* unrelated actions
EvalHistories(action) ==
    { <<>>,
      <<[ts |-> action.requested_at - 5, tool |-> "file", op |-> "stat",
         params_hash |-> ParamsHash(NoParams)]>>,
      <<[ts |-> action.requested_at - 10, tool |-> action.tool, op |-> action.op,
         params_hash |-> ParamsHash(action.params)]>>,
      <<[ts |-> action.requested_at - 20, tool |-> "file", op |-> "list",
         params_hash |-> ParamsHash(NoParams)],
        [ts |-> action.requested_at - 5, tool |-> "file", op |-> "stat",
         params_hash |-> ParamsHash(NoParams)]>> }

InitEval ==
    /\ \E action \in EvalActions, intent \in EvalIntents :
          \E history \in EvalHistories(action) :
              ev_in = <<[action |-> action, intent |-> intent, history |-> history]>>
    /\ ev_out = <<>>
    /\ ev_again = <<>>
    /\ now = StartOfDay
    /\ db_intents = [i \in IntentIds |-> <<>>]
    /\ active_preset = <<>>
    /\ action_history = <<>>
    /\ audit_events = <<>>
    /\ decisions = {}
    /\ connector_calls = <<>>
    /\ next_action_id = 1
    /\ PERSIST_DECISIONS = TRUE
    /\ last = [n |-> 0, endpoint |-> "none", status |-> 0, verdict |-> "none",
               reason_code |-> "none", action_id |-> 0, calls |-> <<>>,
               intent |-> DefaultIntent, op |-> "none", tool |-> "none",
               evaluated |-> FALSE, response |-> "none", persisted |-> FALSE]
    /\ IdleCred
    /\ IdleAuth
    /\ IdleConn
    /\ IdleMore

Evaluate ==
    /\ ev_out = <<>>
    /\ ev_out' = <<evaluate(ev_in[1].action, ev_in[1].intent, ev_in[1].history, 2)>>
    /\ UNCHANGED <<ev_in, ev_again, vars_exec, vars_cred, vars_auth, vars_conn, vars_more>>

\* a second call of evaluate with the same action, intent and history
\* snapshot; Action() draws a new uuid4 for every object it builds
EvaluateAgain ==
    /\ ev_out # <<>>
    /\ ev_again = <<>>
    /\ ev_again' = <<evaluate(ev_in[1].action, ev_in[1].intent, ev_in[1].history, 3)>>
    /\ UNCHANGED <<ev_in, ev_out, vars_exec, vars_cred, vars_auth, vars_conn, vars_more>>

NextEval == Evaluate \/ EvaluateAgain

SpecEval == InitEval /\ [][NextEval]_vars

EvVerdict == IF ev_out[1].raised THEN "raised" ELSE ev_out[1].decision[1].verdict

\* C6 as claimed: with an empty scope, evaluate returns neither ALLOW nor
\* DEGRADE, whatever the constraints.
C6_EmptyScopeNeverExecutable ==
    (ev_out # <<>> /\ ev_in[1].intent.scope = <<>>)
    => EvVerdict \notin {"ALLOW", "DEGRADE"}

\* C6: with an empty scope, evaluate never returns ALLOW; it returns DEGRADE
\* exactly for an email send under a drafts_only constraint and BLOCK for
\* every other action.
C6_EmptyScopeDegradesOnlyDraftsOnlySend ==
    (ev_out # <<>> /\ ev_in[1].intent.scope = <<>>)
    => LET a == ev_in[1].action
           rescued == /\ ev_in[1].intent.constraints.drafts_only
                      /\ a.tool = "email" /\ a.op = "send"
       IN  EvVerdict = IF rescued THEN "DEGRADE" ELSE "BLOCK"

\* an empty-scope intent with further constraints, evaluated on an action
\* that drafts_only does not rescue
C6_Witness ==
    /\ ev_out # <<>>
    /\ ev_in[1].intent.scope = <<>>
    /\ ev_in[1].intent.constraints.drafts_only
    /\ ev_in[1].action.tool = "email" /\ ev_in[1].action.op = "draft"
    /\ EvVerdict = "BLOCK"

(***************************************************************************)
(* The credential store behind its endpoints and connectors                *)
(***************************************************************************)
CredTenants == {NULL, <<"tenant_dev">>, <<"t2">>}

Secrets == {<<"s1">>, <<"s2">>, <<"s3">>}

BaseUrls == {<<"http://claw">>}

NoBody == [credential_id |-> NULL, status |-> NULL, base_url |-> NULL,
           auth_mode |-> NULL, last_error |-> NULL]

NoCredOut == [op |-> "none", tenant_id |-> NULL, credential_id |-> NULL,
              response |-> FALSE, body |-> NoBody, found |-> FALSE, rowid |-> 0,
              source |-> "none"]

\* POST /credentials/set: save without tenant, answer id, tool and "saved"
set_credential(rows, credential_id, tool_name, credential_data) ==
    [rows |-> save_credential(rows, credential_id, tool_name, "gateway",
                              credential_data, NULL),
     out |-> [NoCredOut EXCEPT !.op = "set", !.credential_id = credential_id,
                               !.response = TRUE,
                               !.body = [NoBody EXCEPT !.credential_id = credential_id,
                                                       !.status = <<"saved">>]]]

\* POST /integrations/clawdbot/connect (body.credential_id absent or custom)
connect_clawdbot(rows, tenant_id, body, ts) ==
    LET credential_id ==
            IF body.credential_id = NULL \/ body.credential_id = <<"clawdbot", "gateway">>
            THEN DEFAULT_CLAWDBOT_CREDENTIAL_ID
            ELSE IF tenant_id # NULL /\ body.credential_id # DEFAULT_CLAWDBOT_CREDENTIAL_ID
            THEN body.credential_id \o tenant_id
            ELSE body.credential_id
        saved == save_credential(rows, credential_id, "clawdbot", "gateway",
                                 [base_url |-> body.base_url, auth_mode |-> body.auth_mode,
                                  secret |-> body.secret], tenant_id)
        rows2 == IF body.probe
                 THEN update_credential_status(saved, credential_id, tenant_id, TRUE, "", ts)
                 ELSE saved
    IN  [rows |-> rows2,
         out |-> [NoCredOut EXCEPT !.op = "connect", !.tenant_id = tenant_id,
                                   !.credential_id = credential_id, !.response = TRUE,
                                   !.body = [NoBody EXCEPT !.credential_id = credential_id,
                                                           !.status = <<"connected">>,
                                                           !.base_url = body.base_url,
                                                           !.auth_mode = body.auth_mode]]]

\* DELETE /credentials/{credential_id}: DELETE ... WHERE credential_id = ?
delete_credential(rows, credential_id) ==
    LET kept == SelectSeq(rows, LAMBDA r : r.credential_id # credential_id)
    IN  [rows |-> kept,
         out |-> [NoCredOut EXCEPT !.op = "delete", !.credential_id = credential_id,
                                   !.response = TRUE, !.found = (kept # rows),
                                   !.body = [NoBody EXCEPT
                                               !.credential_id = credential_id,
                                               !.status = IF kept # rows THEN <<"deleted">>
                                                          ELSE <<"not found">>]]]

\* GET /account/integrations: the clawdbot block of the answer
integration_status_response(rows, tenant_id) ==
    LET st == get_integration_status(rows, tenant_id, "clawdbot")
    IN  [NoCredOut EXCEPT !.op = "status", !.tenant_id = tenant_id, !.response = TRUE,
                          !.found = st.connected,
                          !.body = [NoBody EXCEPT !.base_url = st.base_url,
                                                  !.auth_mode = st.auth_mode,
                                                  !.last_error = st.last_error]]

\* ClawdbotConnector(credential_id, tenant_id): what the instance loaded
connector_load(rows, credential_id, tenant_id, config) ==
    LET conn == ClawdbotLoad(rows, credential_id, tenant_id, config)
    IN  [NoCredOut EXCEPT !.op = "load", !.tenant_id = tenant_id,
                          !.credential_id = credential_id,
                          !.found = conn.configured, !.rowid = conn.rowid,
                          !.source = conn.source]

CredentialIds == {DEFAULT_CLAWDBOT_CREDENTIAL_ID, <<"clawdbot", "gateway">>}

CredentialDatas ==
    { [base_url |-> u, auth_mode |-> <<"token">>, secret |-> <<"s1">>] : u \in BaseUrls }

ConnectBodies ==
    { [credential_id |-> NULL, base_url |-> u, auth_mode |-> <<"password">>,
       secret |-> <<"s2">>, probe |-> pr] : u \in BaseUrls, pr \in BOOLEAN }
    \cup
    { [credential_id |-> NULL, base_url |-> u, auth_mode |-> <<"password">>,
       secret |-> <<"s3">>, probe |-> FALSE] : u \in BaseUrls }

\* the row of the pair that a save displaces: the one a later read would
\* have returned
Displaced(rows, credential_id, tenant_id) ==
    get_credential(rows, credential_id, "", tenant_id)

SetCredential ==
    /\ MaxRowid(credentials) < MaxSaves
    /\ \E credential_id \in CredentialIds, data \in CredentialDatas :
          LET r == set_credential(credentials, credential_id, "clawdbot", data)
          IN  /\ credentials' = r.rows /\ cred_out' = r.out
              /\ cred_replaced' = Displaced(credentials, r.out.credential_id, NULL)
    /\ UNCHANGED <<vars_exec, vars_eval, vars_auth, vars_conn, vars_more>>

ConnectClawdbot ==
    /\ MaxRowid(credentials) < MaxSaves
    /\ \E tenant_id \in CredTenants, body \in ConnectBodies :
          LET r == connect_clawdbot(credentials, tenant_id, body, StartOfDay)
          IN  /\ credentials' = r.rows /\ cred_out' = r.out
              /\ cred_replaced' = Displaced(credentials, r.out.credential_id, tenant_id)
    /\ UNCHANGED <<vars_exec, vars_eval, vars_auth, vars_conn, vars_more>>

DeleteCredential ==
    /\ \E credential_id \in CredentialIds :
          LET r == delete_credential(credentials, credential_id)
          IN  credentials' = r.rows /\ cred_out' = r.out /\ cred_replaced' = <<>>
    /\ UNCHANGED <<vars_exec, vars_eval, vars_auth, vars_conn, vars_more>>

GetIntegrationStatus ==
    /\ \E tenant_id \in CredTenants :
          cred_out' = integration_status_response(credentials, tenant_id)
    /\ UNCHANGED <<credentials, cred_replaced>>
    /\ UNCHANGED <<vars_exec, vars_eval, vars_auth, vars_conn, vars_more>>

ConnectorLoad ==
    /\ \E credential_id \in CredentialIds, tenant_id \in CredTenants :
          cred_out' = connector_load(credentials, credential_id, tenant_id, cfg)
    /\ UNCHANGED <<credentials, cred_replaced>>
    /\ UNCHANGED <<vars_exec, vars_eval, vars_auth, vars_conn, vars_more>>

IdleExec ==
    /\ now = StartOfDay
    /\ db_intents = [i \in IntentIds |-> <<>>]
    /\ active_preset = <<>>
    /\ action_history = <<>>
    /\ audit_events = <<>>
    /\ decisions = {}
    /\ connector_calls = <<>>
    /\ next_action_id = 1
    /\ PERSIST_DECISIONS = TRUE
    /\ last = [n |-> 0, endpoint |-> "none", status |-> 0, verdict |-> "none",
               reason_code |-> "none", action_id |-> 0, calls |-> <<>>,
               intent |-> DefaultIntent, op |-> "none", tool |-> "none",
               evaluated |-> FALSE, response |-> "none", persisted |-> FALSE]

InitCred ==
    /\ credentials = <<>>
    /\ cred_out = NoCredOut
    /\ cred_replaced = <<>>
    /\ cfg \in {BaseConfig, DevConfig}
    /\ tenants = <<>> /\ api_keys = {} /\ channel_tokens = {} /\ auth_out = <<>>
    /\ IdleExec
    /\ IdleEval
    /\ IdleConn
    /\ IdleMore

NextCred ==
    \/ SetCredential
    \/ ConnectClawdbot
    \/ DeleteCredential
    \/ GetIntegrationStatus
    \/ ConnectorLoad

SpecCred == InitCred /\ [][NextCred]_vars

RowsOf(credential_id, tenant_id) ==
    SelectSeq(credentials, LAMBDA r :
        r.credential_id = credential_id /\ r.tenant_id = tenant_id)

\* C2: in every store that credential saves can produce, a read of a
\* credential id with tenant T (a tenant or the null tenant) returns only a
\* row written under exactly T, and a connector that loaded its credential
\* from the store for tenant T holds a row written under T.
C2_StrictTenantLookup ==
    /\ \A credential_id \in CredentialIds, tenant_id \in CredTenants :
          LET c == get_credential(credentials, credential_id, "", tenant_id)
          IN  c # <<>> => c[1].tenant_id = tenant_id
    /\ (cred_out.op = "load" /\ cred_out.source = "db")
          => \E i \in 1..Len(credentials) :
                 /\ credentials[i].rowid = cred_out.rowid
                 /\ credentials[i].credential_id = cred_out.credential_id
                 /\ credentials[i].tenant_id = cred_out.tenant_id

\* the same credential id is stored under the null tenant and two tenants,
\* and a connector for one of the tenants loaded its row from the store
C2_Witness ==
    /\ \A t \in CredTenants : RowsOf(DEFAULT_CLAWDBOT_CREDENTIAL_ID, t) # <<>>
    /\ cred_out.op = "load"
    /\ cred_out.source = "db"
    /\ cred_out.tenant_id = <<"t2">>
    /\ cred_out.credential_id = DEFAULT_CLAWDBOT_CREDENTIAL_ID

StoredSecrets ==
    {credentials[i].credential_data.secret : i \in 1..Len(credentials)}

StoredCredentialData ==
    StoredSecrets \cup {credentials[i].credential_data.base_url : i \in 1..Len(credentials)}

BodyValues(body) ==
    {body.credential_id, body.status, body.base_url, body.auth_mode, body.last_error}
        \ {NULL}

\* C8 as claimed: no endpoint response carries a value of a stored
\* credential's credential_data.
C8_NoCredentialDataInResponse ==
    cred_out.response => BodyValues(cred_out.body) \cap StoredCredentialData = {}

\* C8: no endpoint response carries the secret of a stored credential; the
\* base_url and auth_mode of a clawdbot credential are returned by the connect
\* and integration-status endpoints.
C8_NoSecretInResponse ==
    cred_out.response => BodyValues(cred_out.body) \cap StoredSecrets = {}

\* the integration status of a tenant whose credential is stored was read
C8_Witness ==
    /\ cred_out.op = "status"
    /\ cred_out.response
    /\ cred_out.body.base_url # NULL
    /\ get_credential(credentials, IntegrationCredentialId("clawdbot", cred_out.tenant_id),
                      "clawdbot", cred_out.tenant_id) # <<>>

(***************************************************************************)
(* config.py, billing/plans.py, middleware/auth.py, tenancy.py             *)
(***************************************************************************)
is_production(config) ==
    \/ config.ENVIRONMENT = "production"
    \/ (config.CREDENTIALS_STRICT /\ config.AUTH_ENABLED)

PLANS == {"free", "starter", "pro", "enterprise"}

PlanLimits(plan) ==
    CASE plan = "free" -> [requests_per_month |-> 1000, requests_per_day |-> 50]
      [] plan = "starter" -> [requests_per_month |-> 10000, requests_per_day |-> 500]
      [] plan = "pro" -> [requests_per_month |-> 100000, requests_per_day |-> 5000]
      [] OTHER -> [requests_per_month |-> -1, requests_per_day |-> -1]

\* check_usage_limit: "raise" when get_plan_limits does not know the plan
check_usage_limit(plan_name, current_usage, period) ==
    IF Lower(plan_name) \notin PLANS THEN "raise"
    ELSE LET limits == PlanLimits(Lower(plan_name))
             limit == IF period = "month" THEN limits.requests_per_month
                      ELSE limits.requests_per_day
         IN  IF limit = -1 \/ current_usage < limit THEN "within" ELSE "exceeded"

\* hashlib.sha256(token).hexdigest()
Hash(token) == <<"sha256", token>>

\* str.strip()
Strip(text) ==
    CASE text = "  " -> ""
      [] text = " edon-cd34 " -> "edon-cd34"
      [] OTHER -> text

\* get_token_from_header: X-EDON-TOKEN, stripped; empty counts as absent
get_token_from_header(header) ==
    IF header = NULL \/ Strip(header[1]) = "" THEN NULL ELSE <<Strip(header[1])>>

ActiveByHash(rows, key_hash) ==
    {r \in rows : r.key_hash = key_hash /\ r.status = "active"}

\* update_api_key_last_used / update_channel_token_last_used write the
\* last_used_at column only, which no row of the model carries
MarkUsed(rows, row) == rows

\* verify_clerk_token: the session JWTs the identity provider would sign,
\* each with the tenant that resolve_tenant_for_clerk finds or creates
ClerkTenant(token) ==
    CASE token = "jwt_new" -> <<"t_new">>
      [] OTHER -> NULL

NewTenant == [status |-> "trial", plan |-> "free"]

TenantInfo(tn, tenant_id) ==
    <<[tenant_id |-> tenant_id, status |-> tn[tenant_id][1].status,
       plan |-> tn[tenant_id][1].plan]>>

verify_token_EnvTokenAlways(token, config, tn, keys, cts) ==
    LET unchanged == [tenants |-> tn, api_keys |-> keys, channel_tokens |-> cts]
        key_hash == Hash(token)
        api_key == ActiveByHash(keys, key_hash)
        channel_token == ActiveByHash(cts, key_hash)
        clerk == IF config.CLERK_CONFIGURED THEN ClerkTenant(token) ELSE NULL
    IN
    IF ~config.AUTH_ENABLED
    THEN [valid |-> TRUE, info |-> NULL] @@ unchanged
    ELSE IF api_key # {}
    THEN LET k == CHOOSE k \in api_key : TRUE
         IN  IF tn[k.tenant_id] # <<>>
             THEN [valid |-> TRUE, info |-> TenantInfo(tn, k.tenant_id), tenants |-> tn,
                   api_keys |-> MarkUsed(keys, k), channel_tokens |-> cts]
             ELSE [valid |-> FALSE, info |-> NULL, tenants |-> tn,
                   api_keys |-> MarkUsed(keys, k), channel_tokens |-> cts]
    ELSE IF channel_token # {}
    THEN LET c == CHOOSE c \in channel_token : TRUE
         IN  IF tn[c.tenant_id] # <<>>
             THEN [valid |-> TRUE, info |-> TenantInfo(tn, c.tenant_id), tenants |-> tn,
                   api_keys |-> keys, channel_tokens |-> MarkUsed(cts, c)]
             ELSE [valid |-> FALSE, info |-> NULL, tenants |-> tn,
                   api_keys |-> keys, channel_tokens |-> MarkUsed(cts, c)]
    ELSE IF clerk # NULL
    THEN LET tn2 == IF tn[clerk[1]] = <<>> THEN [tn EXCEPT ![clerk[1]] = <<NewTenant>>]
                    ELSE tn
         IN  [valid |-> TRUE, info |-> TenantInfo(tn2, clerk[1]), tenants |-> tn2,
              api_keys |-> keys, channel_tokens |-> cts]
    ELSE IF config.API_TOKEN = NULL \/ config.API_TOKEN = <<"your-secret-token">>
    THEN [valid |-> FALSE, info |-> NULL] @@ unchanged
    ELSE [valid |-> (token = config.API_TOKEN[1]), info |-> NULL] @@ unchanged

\* verify_token(token): (is_valid, tenant_info) and what the lookups wrote
verify_token(token, config, tn, keys, cts) ==
    LET unchanged == [tenants |-> tn, api_keys |-> keys, channel_tokens |-> cts]
        key_hash == Hash(token)
        api_key == ActiveByHash(keys, key_hash)
        channel_token == ActiveByHash(cts, key_hash)
        clerk == IF config.CLERK_CONFIGURED THEN ClerkTenant(token) ELSE NULL
    IN
    IF ~config.AUTH_ENABLED
    THEN [valid |-> TRUE, info |-> NULL] @@ unchanged
    ELSE IF api_key # {}
    THEN LET k == CHOOSE k \in api_key : TRUE
         IN  IF tn[k.tenant_id] # <<>>
             THEN [valid |-> TRUE, info |-> TenantInfo(tn, k.tenant_id), tenants |-> tn,
                   api_keys |-> MarkUsed(keys, k), channel_tokens |-> cts]
             ELSE [valid |-> FALSE, info |-> NULL, tenants |-> tn,
                   api_keys |-> MarkUsed(keys, k), channel_tokens |-> cts]
    ELSE IF channel_token # {}
    THEN LET c == CHOOSE c \in channel_token : TRUE
         IN  IF tn[c.tenant_id] # <<>>
             THEN [valid |-> TRUE, info |-> TenantInfo(tn, c.tenant_id), tenants |-> tn,
                   api_keys |-> keys, channel_tokens |-> MarkUsed(cts, c)]
             ELSE [valid |-> FALSE, info |-> NULL, tenants |-> tn,
                   api_keys |-> keys, channel_tokens |-> MarkUsed(cts, c)]
    ELSE IF clerk # NULL
    THEN LET tn2 == IF tn[clerk[1]] = <<>> THEN [tn EXCEPT ![clerk[1]] = <<NewTenant>>]
                    ELSE tn
         IN  [valid |-> TRUE, info |-> TenantInfo(tn2, clerk[1]), tenants |-> tn2,
              api_keys |-> keys, channel_tokens |-> cts]
    ELSE IF is_production(config) /\ ~config.ALLOW_ENV_TOKEN_IN_PROD
    THEN [valid |-> FALSE, info |-> NULL] @@ unchanged
    ELSE IF config.API_TOKEN = NULL \/ config.API_TOKEN = <<"your-secret-token">>
    THEN [valid |-> FALSE, info |-> NULL] @@ unchanged
    ELSE [valid |-> (token = config.API_TOKEN[1]), info |-> NULL] @@ unchanged

\* tenancy.get_request_tenant_id: request.state.tenant_id, else X-Tenant-ID
get_request_tenant_id(state_tenant_id, x_tenant_id) ==
    IF state_tenant_id # NULL THEN state_tenant_id
    ELSE IF x_tenant_id # NULL /\ Strip(x_tenant_id[1]) # "" THEN <<Strip(x_tenant_id[1])>>
    ELSE NULL

PUBLIC_ENDPOINTS ==
    {"/health", "/healthz", "/docs", "/openapi.json", "/redoc", "/debug/auth-public",
     "/auth/signup", "/auth/session", "/billing/checkout", "/billing/webhook",
     "/integrations/telegram/verify-code"}

\* str.rstrip("/")
RStripSlash(path) ==
    CASE path = "/health/" -> "/health"
      [] path = "/execute/" -> "/execute"
      [] OTHER -> path

\* what lies behind AuthMiddleware, outermost first (main.py add_middleware)
InnerStages == <<"mag", "rate_limit", "validation", "request_id", "handler">>

\* call_next(request): the inner stages run and the handler resolves the
\* tenant with get_request_tenant_id
call_next(req, state_tenant_id) ==
    [status |-> 200,
     reached |-> InnerStages,
     state_tenant_id |-> state_tenant_id,
     handler_tenant_id |-> get_request_tenant_id(state_tenant_id, req.x_tenant_id)]

Rejected(status_code) ==
    [status |-> status_code, reached |-> <<>>, state_tenant_id |-> NULL,
     handler_tenant_id |-> NULL]

\* AuthMiddleware.dispatch.  req: [path, token, x_tenant_id]; usage: what
\* get_tenant_usage returns, NULL when the read raises
dispatch(req, usage) ==
    LET path == RStripSlash(req.path)
        unchanged == [tenants |-> tenants, api_keys |-> api_keys,
                      channel_tokens |-> channel_tokens]
        token == get_token_from_header(req.token)
        v == verify_token(token[1], cfg, tenants, api_keys, channel_tokens)
        written == [tenants |-> v.tenants, api_keys |-> v.api_keys,
                    channel_tokens |-> v.channel_tokens]
        info == v.info[1]
        tenant_status == IF cfg.DEMO_MODE THEN "active" ELSE info.status
        month == IF usage = NULL THEN "raise"
                 ELSE check_usage_limit(info.plan, usage[1], "month")
        day == IF usage = NULL THEN "raise"
               ELSE check_usage_limit(info.plan, usage[1], "day")
    IN
    IF cfg.DEMO_MODE /\ path = "/integrations/telegram/connect-code"
    THEN call_next(req, NULL) @@ unchanged
    ELSE IF path \in PUBLIC_ENDPOINTS \/ req.path \in PUBLIC_ENDPOINTS
    THEN call_next(req, NULL) @@ unchanged
    ELSE IF ~cfg.AUTH_ENABLED
    THEN call_next(req, NULL) @@ unchanged
    ELSE IF token = NULL
    THEN Rejected(401) @@ unchanged
    ELSE IF ~v.valid
    THEN Rejected(401) @@ written
    ELSE IF v.info # NULL
    THEN IF tenant_status \notin {"active", "trial"}
         THEN Rejected(402) @@ written
         ELSE IF month = "raise"
         THEN call_next(req, NULL) @@ written      \* fail open
         ELSE IF month = "exceeded"
         THEN Rejected(429) @@ written
         ELSE IF day = "raise"
         THEN call_next(req, NULL) @@ written
         ELSE IF day = "exceeded"
         THEN Rejected(429) @@ written
         ELSE call_next(req, <<info.tenant_id>>) @@ written
    ELSE IF cfg.ENVIRONMENT = "development" /\ cfg.API_TOKEN = token
    THEN call_next(req, <<"tenant_dev">>) @@ written
    ELSE call_next(req, NULL) @@ written

TenantIds == {"t1", "t2", "t_new", "t_gone"}

AuthConfigs ==
    LET prod == [BaseConfig EXCEPT !.API_TOKEN = <<"env">>]
    IN  { prod,
          [prod EXCEPT !.ALLOW_ENV_TOKEN_IN_PROD = TRUE],
          [prod EXCEPT !.DEMO_MODE = TRUE],
          [prod EXCEPT !.AUTH_ENABLED = FALSE],
          [prod EXCEPT !.ENVIRONMENT = "development", !.CREDENTIALS_STRICT = FALSE],
          [prod EXCEPT !.ENVIRONMENT = "development", !.CREDENTIALS_STRICT = FALSE,
                       !.API_TOKEN = <<"your-secret-token">>, !.CLERK_CONFIGURED = FALSE] }

RequestPaths == {"/execute", "/health/", "/integrations/telegram/connect-code"}

RequestTokens == {NULL, <<"  ">>, <<"k1">>, <<"k_old">>, <<"k_gone">>, <<"ct1">>,
                  <<"jwt_new">>, <<"env">>, <<"your-secret-token">>, <<"bad">>}

AuthRequests ==
    { [path |-> p, token |-> t, x_tenant_id |-> x] :
          p \in RequestPaths, t \in RequestTokens, x \in {NULL, <<"t2">>} }

\* requests_count values on either side of the free plan's daily limit, and
\* a failed read
UsageCounts == {NULL, <<0>>, <<50>>}

HandleRequest ==
    /\ \E req \in AuthRequests, usage \in UsageCounts :
          LET r == dispatch(req, usage)
          IN  /\ auth_out' = [req |-> req, status |-> r.status, reached |-> r.reached,
                              state_tenant_id |-> r.state_tenant_id,
                              handler_tenant_id |-> r.handler_tenant_id]
              /\ tenants' = r.tenants
              /\ api_keys' = r.api_keys
              /\ channel_tokens' = r.channel_tokens
    /\ UNCHANGED <<cfg, vars_exec, vars_eval, vars_cred, vars_conn, vars_more>>

\* Database.update_tenant_subscription(tenant_id, status, plan) as the billing
\* webhook calls it; the plan is the lower-cased price nickname
UpdateTenantSubscription ==
    /\ \E status \in {"active", "past_due"}, plan \in {NULL, <<"team">>} :
          tenants' = [tenants EXCEPT
                         !["t1"] = <<[status |-> status,
                                      plan |-> IF plan = NULL THEN tenants["t1"][1].plan
                                               ELSE plan[1]]>>]
    /\ UNCHANGED <<cfg, api_keys, channel_tokens, auth_out>>
    /\ UNCHANGED <<vars_exec, vars_eval, vars_cred, vars_conn, vars_more>>

NoAuthOut ==
    [req |-> [path |-> "none", token |-> NULL, x_tenant_id |-> NULL], status |-> 0,
     reached |-> <<>>, state_tenant_id |-> NULL, handler_tenant_id |-> NULL]

InitAuth ==
    /\ cfg \in AuthConfigs
    /\ tenants = [t \in TenantIds |->
                     CASE t = "t1" -> <<[status |-> "active", plan |-> "free"]>>
                       [] t = "t2" -> <<[status |-> "trial", plan |-> "free"]>>
                       [] OTHER -> <<>>]
    /\ api_keys = { [key_hash |-> Hash("k1"), tenant_id |-> "t1", status |-> "active"],
                    [key_hash |-> Hash("k_old"), tenant_id |-> "t2", status |-> "revoked"],
                    [key_hash |-> Hash("k_gone"), tenant_id |-> "t_gone",
                     status |-> "active"] }
    /\ channel_tokens = { [key_hash |-> Hash("ct1"), tenant_id |-> "t1",
                           status |-> "active"] }
    /\ auth_out = NoAuthOut
    /\ IdleExec
    /\ IdleEval
    /\ IdleCred
    /\ IdleConn
    /\ IdleMore

NextAuth == HandleRequest \/ UpdateTenantSubscription

SpecAuth == InitAuth /\ [][NextAuth]_vars

(***************************************************************************)
(* Connect codes: routes/integrations.py over the connect_service_codes,   *)
(* connect_codes, channel_bindings, channel_tokens and credentials tables. *)
(* Every Database method opens its own connection and commits, so a        *)
(* handler's calls are separate transactions; worker processes share the   *)
(* database file.                                                          *)
(***************************************************************************)
CONNECT_TTL_SECONDS == 600
TELEGRAM_CONNECT_TTL_MIN == 10
VALID_CONNECT_SERVICES == {"gmail", "google_calendar", "brave_search", "github", "elevenlabs"}
TELEGRAM_BOT_SECRET == <<"bot-secret">>

\* str.upper()
Upper(text) ==
    CASE text = "edon-ab12" -> "EDON-AB12"
      [] text = "edon-cd34" -> "EDON-CD34"
      [] OTHER -> text

\* the strings a code column or a submitted code can hold
CodeStrings == {"EDON-AB12", "edon-ab12", "EDON-0000", "EDON-CD34", "edon-cd34",
                " edon-cd34 "}

\* INSERT INTO connect_service_codes
create_connect_service_code(table, code, tenant_id, service, expires_at) ==
    [table EXCEPT ![code] = <<[tenant_id |-> tenant_id, service |-> service,
                               expires_at |-> expires_at, used_at |-> NULL]>>]

\* SELECT * FROM connect_service_codes WHERE code = ?
get_connect_service_code(table, code) == table[code]

\* UPDATE connect_service_codes SET used_at = ? WHERE code = ?
mark_connect_service_code_used(table, code, ts) ==
    IF table[code] = <<>> THEN table
    ELSE [table EXCEPT ![code] = <<[table[code][1] EXCEPT !.used_at = <<ts>>]>>]

\* INSERT INTO connect_codes
create_connect_code(table, code, tenant_id, expires_at) ==
    [table EXCEPT ![code] = <<[tenant_id |-> tenant_id, channel |-> "telegram",
                               expires_at |-> expires_at, used_at |-> NULL,
                               used_by |-> NULL]>>]

get_connect_code(table, code) == table[code]

\* UPDATE connect_codes SET used_at = ?, used_by = ? WHERE code = ?
mark_connect_code_used(table, code, used_by, ts) ==
    IF table[code] = <<>> THEN table
    ELSE [table EXCEPT ![code] = <<[table[code][1] EXCEPT !.used_at = <<ts>>,
                                                           !.used_by = <<used_by>>]>>]

\* INSERT ... ON CONFLICT(channel, external_user_id) DO UPDATE
upsert_channel_binding(rows, tenant_id, channel, external_user_id) ==
    {r \in rows : ~(r.channel = channel /\ r.external_user_id = external_user_id)}
        \cup {[tenant_id |-> tenant_id, channel |-> channel,
               external_user_id |-> external_user_id, status |-> "active"]}

\* INSERT INTO channel_tokens: a new row with a fresh id and a fresh raw token
create_channel_token(rows, tenant_id, channel, external_user_id) ==
    Append(rows, [id |-> Len(rows) + 1, tenant_id |-> tenant_id, channel |-> channel,
                  external_user_id |-> external_user_id, status |-> "active"])

\* _get_and_validate_service_code: the status it raises, 0 when it returns
\* the entry
_get_and_validate_service_code(table, code, ts) ==
    LET entry == get_connect_service_code(table, Upper(Strip(code)))
    IN  IF entry = <<>> THEN 404
        ELSE IF entry[1].used_at # NULL THEN 409
        ELSE IF entry[1].expires_at < ts THEN 410
        ELSE 0

Attempt(route, code, status_code, stored) ==
    [route |-> route, code |-> code, status |-> status_code, stored |-> stored]

ConnServices == {"brave_search", "github", "fax"}
ServiceCodeValues == {"EDON-AB12"}
TelegramCodeValues == {"EDON-CD34"}
SubmittedServiceCodes == {"EDON-AB12", "edon-ab12", "EDON-0000"}
SubmittedTelegramCodes == {"EDON-CD34", " edon-cd34 "}
ApiKeys == {"key1", "key2", "  "}
ExternalUsers == {"u1", "u2"}
Workers == 1..MaxWorkers

IdleWorker == [pc |-> "idle", code |-> "", user_id |-> "", tenant_id |-> ""]

InFlight == Cardinality({w \in DOMAIN workers : workers[w].pc # "idle"})

\* POST /integrations/connect/link
CreateConnectLink ==
    /\ \E tenant_id \in {NULL, <<"t1">>}, service \in ConnServices,
          code \in ServiceCodeValues :
          /\ connect_service_codes[code] = <<>>
          /\ IF tenant_id = NULL \/ service \notin VALID_CONNECT_SERVICES
             THEN UNCHANGED connect_service_codes
             ELSE connect_service_codes' =
                      create_connect_service_code(connect_service_codes, code,
                          tenant_id[1], service, conn_now + CONNECT_TTL_SECONDS)
    /\ UNCHANGED <<connect_codes, channel_bindings, issued_tokens, svc_credentials,
                   workers, conn_now, conn_out>>
    /\ UNCHANGED <<vars_exec, vars_eval, vars_cred, vars_auth, vars_more>>

\* POST /integrations/connect/brave_search and /connect/github: the same
\* handler for its own tool name
ConnectSubmit ==
    /\ Len(conn_out) + InFlight < MaxAttempts
    /\ \E route \in {"brave_search", "github"}, code \in SubmittedServiceCodes,
          api_key \in ApiKeys :
          LET rejected == _get_and_validate_service_code(connect_service_codes, code,
                                                         conn_now)
              entry == get_connect_service_code(connect_service_codes,
                                                Upper(Strip(code)))[1]
              normalised == Upper(Strip(code))
          IN  IF rejected # 0
              THEN /\ conn_out' = Append(conn_out, Attempt("submit", normalised,
                                                           rejected, FALSE))
                   /\ UNCHANGED <<connect_service_codes, svc_credentials>>
              ELSE IF Strip(api_key) = ""
              THEN /\ conn_out' = Append(conn_out, Attempt("submit", normalised,
                                                           400, FALSE))
                   /\ UNCHANGED <<connect_service_codes, svc_credentials>>
              ELSE /\ svc_credentials' =
                          save_credential(svc_credentials, <<route, entry.tenant_id>>,
                              route, "api_key", [api_key |-> Strip(api_key)],
                              <<entry.tenant_id>>)
                   /\ connect_service_codes' =
                          mark_connect_service_code_used(connect_service_codes, code,
                                                         conn_now)
                   /\ conn_out' = Append(conn_out, Attempt("submit", normalised,
                                                           302, TRUE))
    /\ UNCHANGED <<connect_codes, channel_bindings, issued_tokens, workers, conn_now>>
    /\ UNCHANGED <<vars_exec, vars_eval, vars_cred, vars_auth, vars_more>>

\* POST /integrations/telegram/connect-code outside demo mode
CreateTelegramConnectCode ==
    /\ \E tenant_id \in {NULL, <<"t1">>}, code \in TelegramCodeValues :
          /\ connect_codes[code] = <<>>
          /\ IF tenant_id = NULL
             THEN UNCHANGED connect_codes
             ELSE connect_codes' =
                      create_connect_code(connect_codes, code, tenant_id[1],
                          conn_now + TELEGRAM_CONNECT_TTL_MIN * 60)
    /\ UNCHANGED <<connect_service_codes, channel_bindings, issued_tokens,
                   svc_credentials, workers, conn_now, conn_out>>
    /\ UNCHANGED <<vars_exec, vars_eval, vars_cred, vars_auth, vars_more>>

\* POST /integrations/telegram/verify-code in worker w, up to and including
\* get_connect_code and the checks on the entry it returned
VerifyStart(w) ==
    /\ workers[w].pc = "idle"
    /\ Len(conn_out) + InFlight < MaxAttempts
    /\ \E header_secret \in {TELEGRAM_BOT_SECRET, <<"wrong">>},
          body_code \in SubmittedTelegramCodes, user_id \in ExternalUsers :
          LET code == Upper(Strip(body_code))
              entry == get_connect_code(connect_codes, code)
              reject(status_code) ==
                  /\ conn_out' = Append(conn_out, Attempt("verify", code, status_code,
                                                          FALSE))
                  /\ UNCHANGED workers
          IN  IF header_secret # TELEGRAM_BOT_SECRET THEN reject(401)
              ELSE IF entry = <<>> THEN reject(404)
              ELSE IF entry[1].used_at # NULL THEN reject(409)
              ELSE IF entry[1].expires_at < conn_now THEN reject(410)
              ELSE /\ workers' = [workers EXCEPT ![w] =
                                     [pc |-> "mark", code |-> code, user_id |-> user_id,
                                      tenant_id |-> entry[1].tenant_id]]
                   /\ UNCHANGED conn_out
    /\ UNCHANGED <<connect_service_codes, connect_codes, channel_bindings,
                   issued_tokens, svc_credentials, conn_now>>
    /\ UNCHANGED <<vars_exec, vars_eval, vars_cred, vars_auth, vars_more>>

\* db.mark_connect_code_used(code, used_by=body.user_id)
VerifyMark(w) ==
    /\ workers[w].pc = "mark"
    /\ connect_codes' = mark_connect_code_used(connect_codes, workers[w].code,
                                               workers[w].user_id, conn_now)
    /\ workers' = [workers EXCEPT ![w].pc = "bind"]
    /\ UNCHANGED <<connect_service_codes, channel_bindings, issued_tokens,
                   svc_credentials, conn_now, conn_out>>
    /\ UNCHANGED <<vars_exec, vars_eval, vars_cred, vars_auth, vars_more>>

\* db.upsert_channel_binding(...)
VerifyBind(w) ==
    /\ workers[w].pc = "bind"
    /\ channel_bindings' = upsert_channel_binding(channel_bindings, workers[w].tenant_id,
                                                  "telegram", workers[w].user_id)
    /\ workers' = [workers EXCEPT ![w].pc = "token"]
    /\ UNCHANGED <<connect_service_codes, connect_codes, issued_tokens,
                   svc_credentials, conn_now, conn_out>>
    /\ UNCHANGED <<vars_exec, vars_eval, vars_cred, vars_auth, vars_more>>

\* db.create_channel_token(...) and the 200 response carrying the raw token
VerifyToken(w) ==
    /\ workers[w].pc = "token"
    /\ issued_tokens' = create_channel_token(issued_tokens, workers[w].tenant_id,
                                             "telegram", workers[w].user_id)
    /\ conn_out' = Append(conn_out, Attempt("verify", workers[w].code, 200, TRUE))
    /\ workers' = [workers EXCEPT ![w] = IdleWorker]
    /\ UNCHANGED <<connect_service_codes, connect_codes, channel_bindings,
                   svc_credentials, conn_now>>
    /\ UNCHANGED <<vars_exec, vars_eval, vars_cred, vars_auth, vars_more>>

\* datetime.now(UTC) moves past the expiry of the codes created so far
ClockPassesTtl ==
    /\ conn_now < MaxTtlPeriods * (CONNECT_TTL_SECONDS + 1)
    /\ conn_now' = conn_now + CONNECT_TTL_SECONDS + 1
    /\ UNCHANGED <<connect_service_codes, connect_codes, channel_bindings,
                   issued_tokens, svc_credentials, workers, conn_out>>
    /\ UNCHANGED <<vars_exec, vars_eval, vars_cred, vars_auth, vars_more>>

InitConnect ==
    /\ connect_service_codes = [c \in CodeStrings |-> <<>>]
    /\ connect_codes = [c \in CodeStrings |-> <<>>]
    /\ channel_bindings = {}
    /\ issued_tokens = <<>>
    /\ svc_credentials = <<>>
    /\ workers = [w \in Workers |-> IdleWorker]
    /\ conn_now = 0
    /\ conn_out = <<>>
    /\ IdleExec
    /\ IdleEval
    /\ IdleCred
    /\ IdleAuth
    /\ IdleMore

NextConnect ==
    \/ CreateConnectLink
    \/ ConnectSubmit
    \/ CreateTelegramConnectCode
    \/ \E w \in Workers : VerifyStart(w)
    \/ \E w \in Workers : VerifyMark(w)
    \/ \E w \in Workers : VerifyBind(w)
    \/ \E w \in Workers : VerifyToken(w)
    \/ ClockPassesTtl

SpecConnect == InitConnect /\ [][NextConnect]_vars

(***************************************************************************)
(* The middleware pipeline: main.py registers request_id_and_security_     *)
(* headers with @app.middleware and then Validation, RateLimit, Mag and    *)
(* Auth with add_middleware.  Each registration is put in front of the     *)
(* earlier ones, so the last one added (Auth) is the outermost and the     *)
(* first one (request id) is next to the handler.  A stage is an operator  *)
(* that answers itself or wraps the answer of the stage inside it.         *)
(*   response: [status, stages (entered, outermost first), headers,        *)
(*              raised (an exception is on its way out), counters,         *)
(*              tenant_usage]                                              *)
(***************************************************************************)
Windows == {"minute", "hour", "day"}
Subjects == {"anonymous", "a1", "telegram:42"}
CounterKeys == {<<"rate_limit", a, w, t>> : a \in Subjects, w \in Windows,
                                             t \in 0..(MaxMinutes + 1)}

\* the limits in force, scaled down with per_minute < per_hour < per_day
ANONYMOUS_LIMITS ==
    [minute |-> MaxAnonymousPerMinute, hour |-> MaxAnonymousPerMinute + 1,
     day |-> MaxAnonymousPerMinute + 2]
DEFAULT_LIMITS ==
    [minute |-> MaxAgentPerMinute, hour |-> MaxAgentPerMinute + 1,
     day |-> MaxAgentPerMinute + 2]
POLLING_ENDPOINT_LIMITS ==
    [minute |-> MaxAgentPerMinute, hour |-> MaxAgentPerMinute + 2,
     day |-> MaxAgentPerMinute + 4]

\* strftime of now for the window; ts in minutes
get_rate_limit_key(agent_id, window, ts) ==
    <<"rate_limit", agent_id, window,
      CASE window = "minute" -> ts
        [] window = "hour" -> ts \div 60
        [] window = "day" -> ts \div 1440>>

\* SELECT value FROM counters WHERE key = ?; 0 without a row
get_counter(table, key) == IF table[key] = <<>> THEN 0 ELSE table[key][1]

increment_counter_Overwrite(table, key, amount) ==
    [table EXCEPT ![key] = <<amount>>]

\* INSERT ... ON CONFLICT(key) DO UPDATE SET value = value + ?
increment_counter(table, key, amount) ==
    [table EXCEPT ![key] = <<get_counter(table, key) + amount>>]

\* rate_limit.check_rate_limit: allowed?
rl_check_rate_limit(table, agent_id, limits, config, ts) ==
    \/ ~config.RATE_LIMIT_ENABLED
    \/ \A w \in Windows :
          get_counter(table, get_rate_limit_key(agent_id, w, ts)) < limits[w]

\* the order in which check_rate_limit walks the limits dict
LimitOrder == <<"per_minute", "per_hour", "per_day">>

\* window.replace("per_", "")
WindowName(window) ==
    CASE window = "per_minute" -> "minute"
      [] window = "per_hour" -> "hour"
      [] OTHER -> "day"

\* f"Rate limit exceeded: {limit} requests per {window_name}", word by word
RateLimitMessage(window_name) ==
    <<"Rate", "limit", "exceeded:", "{limit}", "requests", "per", window_name>>

\* the error message of check_rate_limit: <<>> when the request is allowed,
\* else the message for the first window whose counter has reached its limit
check_rate_limit_message(table, agent_id, limits, config, ts) ==
    LET exceeded == {i \in 1..Len(LimitOrder) :
                        get_counter(table, get_rate_limit_key(agent_id,
                                               WindowName(LimitOrder[i]), ts))
                            >= limits[WindowName(LimitOrder[i])]}
    IN  IF ~config.RATE_LIMIT_ENABLED \/ exceeded = {} THEN <<>>
        ELSE <<RateLimitMessage(WindowName(LimitOrder[
                   CHOOSE i \in exceeded : \A k \in exceeded : i <= k]))>>

\* `pattern in error_msg` for a pattern without blanks: it lies within a word
InMessage(pattern, error_msg) == \E i \in 1..Len(error_msg) : error_msg[i] = pattern

AnonymousHint ==
    <<"Anonymous", "requests", "are", "heavily", "rate-limited.", "Provide", "agent_id",
      "in", "X-Agent-ID", "header", "or", "query", "parameter.">>

\* the Retry-After value RateLimitMiddleware.dispatch derives from the message
RetryAfter(error_msg) ==
    IF InMessage("per_minute", error_msg) THEN "60"
    ELSE IF InMessage("per_hour", error_msg) THEN "3600"
    ELSE IF InMessage("per_day", error_msg) THEN "86400"
    ELSE "60"

\* increment_rate_limit: one increment_counter per window
increment_rate_limit(table, agent_id, config, ts) ==
    IF ~config.RATE_LIMIT_ENABLED THEN table
    ELSE LET m == increment_counter(table, get_rate_limit_key(agent_id, "minute", ts), 1)
             h == increment_counter(m, get_rate_limit_key(agent_id, "hour", ts), 1)
         IN  increment_counter(h, get_rate_limit_key(agent_id, "day", ts), 1)

\* Database.increment_tenant_usage: UPDATE, else INSERT; the INSERT fails on
\* the foreign key when the tenants table has no such tenant
increment_tenant_usage(table, tn, tenant_id) ==
    IF tenant_id \in DOMAIN table /\ table[tenant_id] # <<>>
    THEN [raised |-> FALSE,
          table |-> [table EXCEPT ![tenant_id] = <<table[tenant_id][1] + 1>>]]
    ELSE IF tenant_id \in DOMAIN tn /\ tn[tenant_id] # <<>>
    THEN [raised |-> FALSE, table |-> [table EXCEPT ![tenant_id] = <<1>>]]
    ELSE [raised |-> TRUE, table |-> table]

Reply(stage, status_code, ctrs, usage) ==
    [status |-> status_code, stages |-> <<stage>>, headers |-> {}, retry_after |-> <<>>,
     raised |-> FALSE, counters |-> ctrs, tenant_usage |-> usage]

Enter(stage, inner) == [inner EXCEPT !.stages = <<stage>> \o inner.stages]

\* the route handler: an answer, an HTTPException or an unhandled exception
handler_stage(req, ctrs, usage) ==
    [Reply("handler", CASE req.handler = "ok" -> 200
                        [] req.handler = "not_found" -> 404
                        [] OTHER -> 500, ctrs, usage)
        EXCEPT !.raised = (req.handler = "raise")]

SecurityHeaders ==
    {"X-Request-ID", "X-Content-Type-Options", "X-Frame-Options", "Referrer-Policy",
     "X-XSS-Protection"}

\* request_id_and_security_headers
\* the headers are set on the response that call_next returned
WithSecurityHeaders(response) ==
    IF response.raised THEN response
    ELSE [response EXCEPT !.headers = response.headers \cup SecurityHeaders]

request_id_and_security_headers(req, ctrs, usage) ==
    WithSecurityHeaders(Enter("request_id", handler_stage(req, ctrs, usage)))

VALIDATION_EXCLUDED_ENDPOINTS == {"/health", "/docs", "/openapi.json", "/redoc"}

\* ValidationMiddleware.dispatch
validation_dispatch(req, ctrs, usage) ==
    IF req.path \notin VALIDATION_EXCLUDED_ENDPOINTS /\ req.body = "too_large"
    THEN Reply("validation", 413, ctrs, usage)
    ELSE IF /\ req.path \notin VALIDATION_EXCLUDED_ENDPOINTS
            /\ req.method \in {"POST", "PUT", "PATCH"}
            /\ req.body = "bad_structure"
    THEN Reply("validation", 400, ctrs, usage)
    ELSE Enter("validation", request_id_and_security_headers(req, ctrs, usage))

RATE_LIMIT_EXCLUDED_ENDPOINTS ==
    {"/health", "/docs", "/openapi.json", "/redoc", "/metrics", "/stats"}
POLLING_ENDPOINTS == {"/decisions/query", "/audit/query", "/timeseries", "/block-reasons"}

\* str.startswith("telegram:")
StartsWithTelegram(agent_id) == agent_id = "telegram:42"

\* RateLimitMiddleware.dispatch.  state_tenant_id: request.state.tenant_id,
\* NULL when the attribute was never set
\* passed: the response of call_next(request)
rate_limit_around(req, state_tenant_id, config, tn, ctrs, usage, ts, passed) ==
    LET is_anonymous == req.agent_id = NULL
        limits_to_use == IF req.path \in POLLING_ENDPOINTS THEN POLLING_ENDPOINT_LIMITS
                         ELSE IF is_anonymous THEN ANONYMOUS_LIMITS
                         ELSE DEFAULT_LIMITS
        rate_limit_key == IF is_anonymous THEN "anonymous" ELSE req.agent_id[1]
        counted == increment_rate_limit(ctrs, rate_limit_key, config, ts)
        used == increment_tenant_usage(usage, tn, state_tenant_id[1])
        checked == check_rate_limit_message(ctrs, rate_limit_key, limits_to_use, config, ts)
        error_msg == IF is_anonymous THEN checked[1] \o AnonymousHint ELSE checked[1]
    IN
    IF req.path \in RATE_LIMIT_EXCLUDED_ENDPOINTS THEN passed
    ELSE IF config.DEMO_MODE /\ ~is_anonymous /\ StartsWithTelegram(req.agent_id[1])
    THEN passed
    ELSE IF ~config.RATE_LIMIT_ENABLED THEN passed
    ELSE IF ~rl_check_rate_limit(ctrs, rate_limit_key, limits_to_use, config, ts)
    THEN [Reply("rate_limit", 429, ctrs, usage)
             EXCEPT !.headers = {"Retry-After"}, !.retry_after = <<RetryAfter(error_msg)>>]
    ELSE IF passed.raised \/ passed.status < 200 \/ passed.status >= 300 THEN passed
    ELSE IF state_tenant_id = NULL THEN [passed EXCEPT !.counters = counted]
    ELSE IF used.raised
    THEN [passed EXCEPT !.counters = counted, !.raised = TRUE, !.status = 500,
                        !.headers = {}]
    ELSE [passed EXCEPT !.counters = counted, !.tenant_usage = used.table]

rate_limit_dispatch(req, state_tenant_id, config, tn, ctrs, usage, ts) ==
    rate_limit_around(req, state_tenant_id, config, tn, ctrs, usage, ts,
                      Enter("rate_limit", validation_dispatch(req, ctrs, usage)))

MAG_ENFORCE_PATHS == {"/execute", "/clawdbot/invoke", "/edon/invoke"}

\* mag_client.mag_enabled_for_tenant.  tenants.mag_enabled is 0 in every row
\* the gateway creates and no statement of the gateway sets it, so
\* db.is_mag_enabled answers False for the tenants of the model
mag_enabled_for_tenant(config, tenant_id) ==
    config.MAG_ENABLED \/ (tenant_id # NULL /\ FALSE)

\* a decision bundle: [kind, verdict]; kind is the JSON type of the value
\* ("dict", or "str" for a bundle that is a string), verdict the value under
\* "decision" or "verdict": <<>> when there is none
AllowBundle == [kind |-> "dict", verdict |-> <<"allow">>]

\* the MAG ledger behind GET {MAG_URL}/mag/ledger/decisions/{decision_id};
\* <<>>: 404, an error status, a failed request or an unreadable payload
MagLedger(decision_id) ==
    CASE decision_id = "d_allow" -> <<AllowBundle>>
      [] decision_id = "d_deny" -> <<[AllowBundle EXCEPT !.verdict = <<"deny">>]>>
      [] OTHER -> <<>>

fetch_decision_bundle(decision_id) == MagLedger(decision_id)

extract_decision_verdict(decision_bundle) ==
    IF decision_bundle.verdict = <<>> THEN <<>>
    ELSE <<Lower(decision_bundle.verdict[1])>>

\* what MagValidationMiddleware.dispatch decides for an enforced request of
\* a tenant with MAG enabled: 0 to pass it on, a status to answer with, and
\* raised when decision_bundle.get fails on a bundle that is not a dict
MagCheck(x_decision_id, body_decision_id, inline_bundle) ==
    LET decision_id == IF x_decision_id # <<>> THEN x_decision_id ELSE body_decision_id
        fetched == IF inline_bundle = <<>> /\ decision_id # <<>>
                   THEN fetch_decision_bundle(decision_id[1])
                   ELSE <<>>
        decision_bundle == IF inline_bundle # <<>> THEN inline_bundle ELSE fetched
    IN  IF inline_bundle = <<>> /\ decision_id # <<>> /\ fetched = <<>>
        THEN [status |-> 404, raised |-> FALSE]
        ELSE IF decision_bundle = <<>>
        THEN [status |-> 400, raised |-> FALSE]
        ELSE IF decision_bundle[1].kind # "dict"
        THEN [status |-> 500, raised |-> TRUE]
        ELSE IF extract_decision_verdict(decision_bundle[1]) = <<>>
        THEN [status |-> 400, raised |-> FALSE]
        ELSE IF extract_decision_verdict(decision_bundle[1]) # <<"allow">>
        THEN [status |-> 403, raised |-> FALSE]
        ELSE [status |-> 0, raised |-> FALSE]

\* MagValidationMiddleware.dispatch
\* the request is passed on exactly when no check stops it
mag_dispatch(req, state_tenant_id, config, tn, ctrs, usage, ts) ==
    LET checked == MagCheck(req.x_decision_id, req.body_decision_id, req.decision_bundle)
    IN  IF req.method \notin {"POST", "PUT"} \/ RStripSlash(req.path) \notin MAG_ENFORCE_PATHS
           \/ ~mag_enabled_for_tenant(config,
                    get_request_tenant_id(state_tenant_id, req.x_tenant_id))
           \/ checked.status = 0
        THEN Enter("mag", rate_limit_dispatch(req, state_tenant_id, config, tn,
                                              ctrs, usage, ts))
        ELSE [Reply("mag", checked.status, ctrs, usage) EXCEPT !.raised = checked.raised]

\* an exception that leaves the stack becomes a bare 500
ServerErrorIfRaised(response) ==
    IF response.raised THEN [response EXCEPT !.status = 500, !.headers = {}]
    ELSE response

\* what follows AuthMiddleware.dispatch: its own answer, or the inner stages
AfterAuth(req, ts, auth) ==
    [response |-> ServerErrorIfRaised(
                      IF auth.reached = <<>>
                      THEN Reply("auth", auth.status, counters, tenant_usage)
                      ELSE Enter("auth", mag_dispatch(req, auth.state_tenant_id, cfg,
                                                      auth.tenants, counters,
                                                      tenant_usage, ts))),
     tenants |-> auth.tenants, api_keys |-> auth.api_keys,
     channel_tokens |-> auth.channel_tokens]

\* the application as the server calls it: AuthMiddleware outermost
app(req, ts) ==
    AfterAuth(req, ts,
              dispatch([path |-> req.path, token |-> req.token,
                        x_tenant_id |-> req.x_tenant_id],
                       IF tenant_usage["t1"] = <<>> THEN <<0>> ELSE tenant_usage["t1"]))

PipeConfigs ==
    LET prod == [BaseConfig EXCEPT !.API_TOKEN = <<"env">>]
    IN  { prod,
          [prod EXCEPT !.MAG_ENABLED = TRUE],
          [prod EXCEPT !.ENVIRONMENT = "development", !.CREDENTIALS_STRICT = FALSE] }

\* the usual POST /execute
UsualRequest ==
    [path |-> "/execute", method |-> "POST", x_decision_id |-> <<"d_allow">>,
     body_decision_id |-> <<>>, decision_bundle |-> <<>>,
     body |-> "ok", handler |-> "ok"]

\* what a request is apart from who sends it: the usual one, and the ways in
\* which one stage each can stop it
PipeShapes ==
    { UsualRequest,
      [UsualRequest EXCEPT !.x_decision_id = <<>>],
      [UsualRequest EXCEPT !.x_decision_id = <<"d_deny">>],
      [UsualRequest EXCEPT !.x_decision_id = <<"d_gone">>],
      [UsualRequest EXCEPT !.x_decision_id = <<>>, !.body_decision_id = <<"d_allow">>],
      [UsualRequest EXCEPT !.x_decision_id = <<"d_deny">>,
                           !.decision_bundle = <<[AllowBundle EXCEPT !.verdict = <<"ALLOW">>]>>],
      [UsualRequest EXCEPT !.x_decision_id = <<>>,
                           !.decision_bundle = <<[AllowBundle EXCEPT !.verdict = <<>>]>>],
      [UsualRequest EXCEPT !.x_decision_id = <<>>,
                           !.decision_bundle = <<[kind |-> "str", verdict |-> <<>>]>>],
      [UsualRequest EXCEPT !.body = "too_large"],
      [UsualRequest EXCEPT !.body = "bad_structure"],
      [UsualRequest EXCEPT !.handler = "not_found"],
      [UsualRequest EXCEPT !.handler = "raise"],
      [UsualRequest EXCEPT !.path = "/health", !.method = "GET"] }

\* every shape from agent a1 with the API key of tenant t1; the usual request
\* without agent id with no token, the environment token and the API key
PipeRequests ==
    { sh @@ [token |-> <<"k1">>, x_tenant_id |-> NULL, agent_id |-> <<"a1">>] :
          sh \in PipeShapes }
    \cup
    { UsualRequest @@ [token |-> t, x_tenant_id |-> NULL, agent_id |-> NULL] :
          t \in {NULL, <<"k1">>, <<"env">>} }

Request ==
    /\ \E req \in PipeRequests :
          \E r \in {app(req, pipe_now)} :
              /\ pipe_out' = [req |-> req, status |-> r.response.status,
                              stages |-> r.response.stages,
                              headers |-> r.response.headers,
                              retry_after |-> r.response.retry_after]
              /\ counters' = r.response.counters
              /\ tenant_usage' = r.response.tenant_usage
              /\ tenants' = r.tenants
              /\ api_keys' = r.api_keys
              /\ channel_tokens' = r.channel_tokens
    /\ UNCHANGED <<cfg, auth_out, pipe_now>>
    /\ UNCHANGED <<vars_exec, vars_eval, vars_cred, vars_conn, rest_pipe>>

\* the wall clock reaches the next minute
NextMinute ==
    /\ pipe_now < MaxMinutes
    /\ pipe_now' = pipe_now + 1
    /\ UNCHANGED <<counters, tenant_usage, pipe_out>>
    /\ UNCHANGED <<vars_exec, vars_eval, vars_cred, vars_auth, vars_conn, rest_pipe>>

NoPipeOut ==
    [req |-> [path |-> "none", method |-> "GET", token |-> NULL, x_tenant_id |-> NULL,
              agent_id |-> NULL, x_decision_id |-> <<>>, body_decision_id |-> <<>>,
              decision_bundle |-> <<>>, body |-> "ok", handler |-> "ok"],
     status |-> 0, stages |-> <<>>, headers |-> {}, retry_after |-> <<>>]

InitPipe ==
    /\ cfg \in PipeConfigs
    /\ tenants = [t \in TenantIds |->
                     IF t = "t1" THEN <<[status |-> "active", plan |-> "pro"]>> ELSE <<>>]
    /\ api_keys = { [key_hash |-> Hash("k1"), tenant_id |-> "t1", status |-> "active"] }
    /\ channel_tokens = {}
    /\ auth_out = NoAuthOut
    /\ counters = [k \in CounterKeys |-> <<>>]
    /\ tenant_usage = [t \in TenantIds |-> <<>>]
    /\ pipe_now = 0
    /\ pipe_out = NoPipeOut
    /\ IdleExec
    /\ IdleEval
    /\ IdleCred
    /\ IdleConn
    /\ IdleCtr
    /\ IdleSu
    /\ IdleHist
    /\ IdleJwks
    /\ IdleLate

NextPipe == Request \/ NextMinute

SpecPipe == InitPipe /\ [][NextPipe]_vars

(***************************************************************************)
(* Concurrent increments of one subject's counters.  Every worker runs     *)
(* increment_rate_limit: one increment_counter call per window, each a     *)
(* transaction of its own on a connection of its own.  SQLite admits one   *)
(* write transaction at a time: the upsert takes the write lock or, when   *)
(* the lock stays taken for the 10 s busy timeout, fails with "database is *)
(* locked"; the lock is held until the commit.                             *)
(***************************************************************************)
WindowOrder == <<"minute", "hour", "day">>

CtrIdle == [pc |-> "idle", k |-> 0]

CtrKey(k) == get_rate_limit_key("a1", WindowOrder[k], pipe_now)

\* increment_rate_limit(agent_id) is entered
StartIncrement(w) ==
    /\ ctr_workers[w].pc = "idle"
    /\ ctr_workers' = [ctr_workers EXCEPT ![w] = [pc |-> "upsert", k |-> 1]]
    /\ UNCHANGED <<counters, tenant_usage, pipe_now, pipe_out, ctr_txn, ctr_prior>>
    /\ UNCHANGED <<vars_exec, vars_eval, vars_cred, vars_auth, vars_conn, rest_ctr>>

\* increment_counter: the INSERT ... ON CONFLICT DO UPDATE runs
Upsert(w) ==
    /\ ctr_workers[w].pc = "upsert"
    /\ ctr_txn = <<>>
    /\ ctr_txn' = <<[owner |-> w,
                     table |-> increment_counter(counters, CtrKey(ctr_workers[w].k), 1)]>>
    /\ ctr_workers' = [ctr_workers EXCEPT ![w].pc = "commit"]
    /\ UNCHANGED <<counters, tenant_usage, pipe_now, pipe_out, ctr_prior>>
    /\ UNCHANGED <<vars_exec, vars_eval, vars_cred, vars_auth, vars_conn, rest_ctr>>

\* increment_counter: the busy timeout passes, _get_connection raises
\* RuntimeError and increment_rate_limit is left
UpsertLocked(w) ==
    /\ ctr_workers[w].pc = "upsert"
    /\ ctr_txn # <<>>
    /\ ctr_workers' = [ctr_workers EXCEPT ![w].pc = "failed"]
    /\ UNCHANGED <<counters, tenant_usage, pipe_now, pipe_out, ctr_txn, ctr_prior>>
    /\ UNCHANGED <<vars_exec, vars_eval, vars_cred, vars_auth, vars_conn, rest_ctr>>

\* increment_counter: SELECT value and conn.commit(); then the next window
Commit(w) ==
    /\ ctr_workers[w].pc = "commit"
    /\ ctr_txn # <<>>
    /\ ctr_txn[1].owner = w
    /\ counters' = ctr_txn[1].table
    /\ ctr_txn' = <<>>
    /\ ctr_workers' = [ctr_workers EXCEPT ![w] =
                          IF ctr_workers[w].k < Len(WindowOrder)
                          THEN [pc |-> "upsert", k |-> ctr_workers[w].k + 1]
                          ELSE [pc |-> "done", k |-> ctr_workers[w].k]]
    /\ UNCHANGED <<tenant_usage, pipe_now, pipe_out, ctr_prior>>
    /\ UNCHANGED <<vars_exec, vars_eval, vars_cred, vars_auth, vars_conn, rest_ctr>>

InitCounter ==
    /\ ctr_prior \in {0, 1}
    /\ counters = [key \in CounterKeys |->
                      IF ctr_prior > 0 /\ key[2] = "a1" /\ key[4] = 0
                      THEN <<ctr_prior>> ELSE <<>>]
    /\ ctr_workers = [w \in Workers |-> CtrIdle]
    /\ ctr_txn = <<>>
    /\ tenant_usage = [t \in TenantIds |-> <<>>]
    /\ pipe_now = 0
    /\ pipe_out = NoPipeOut
    /\ IdleExec
    /\ IdleEval
    /\ IdleCred
    /\ IdleAuth
    /\ IdleConn
    /\ IdleSu
    /\ IdleHist
    /\ IdleJwks
    /\ IdleLate

NextCounter ==
    \/ \E w \in Workers : StartIncrement(w)
    \/ \E w \in Workers : Upsert(w)
    \/ \E w \in Workers : UpsertLocked(w)
    \/ \E w \in Workers : Commit(w)

SpecCounter == InitCounter /\ [][NextCounter]_vars

(***************************************************************************)
(* Users and tenants of Clerk subjects.  resolve_tenant_for_clerk is run   *)
(* by POST /auth/signup and by verify_token for every request that bears a *)
(* Clerk session token.  Each database call is a transaction of its own;   *)
(* the gateway's worker processes share the database.                      *)
(***************************************************************************)
ClerkSubjects == {"sub_1", "sub_2"}

\* claims.get("email") ... or fallback_email or "unknown@edoncore.com"
ClerkEmail(sub) ==
    IF sub = "sub_1" THEN "sub_1@example.com" ELSE "unknown@edoncore.com"

get_user_by_auth(users, auth_provider, auth_subject) ==
    LET rows == {u \in users : u.auth_provider = auth_provider
                               /\ u.auth_subject = auth_subject}
    IN  IF rows = {} THEN NULL ELSE <<CHOOSE u \in rows : TRUE>>

\* INSERT INTO users: id is the primary key, email is UNIQUE and so is
\* (auth_provider, auth_subject); [raised, users]
create_user(users, user_id, email, auth_provider, auth_subject) ==
    IF \E u \in users : \/ u.id = user_id
                        \/ u.email = email
                        \/ u.auth_provider = auth_provider /\ u.auth_subject = auth_subject
    THEN [raised |-> TRUE, users |-> users]
    ELSE [raised |-> FALSE,
          users |-> users \cup {[id |-> user_id, email |-> email,
                                 auth_provider |-> auth_provider,
                                 auth_subject |-> auth_subject]}]

get_tenant_by_user_id(tn, users, user_id) ==
    LET rows == {t \in tn : t.user_id = user_id /\ \E u \in users : u.id = user_id}
    IN  IF rows = {} THEN NULL ELSE <<CHOOSE t \in rows : TRUE>>

\* INSERT INTO tenants: id is the primary key, user_id references users(id)
\* and carries no uniqueness constraint; [raised, tenants]
create_tenant(tn, users, tenant_id, user_id) ==
    IF \/ \E t \in tn : t.id = tenant_id
       \/ ~ \E u \in users : u.id = user_id
    THEN [raised |-> TRUE, tenants |-> tn]
    ELSE [raised |-> FALSE,
          tenants |-> tn \cup {[id |-> tenant_id, user_id |-> user_id,
                                status |-> "trial", plan |-> "free"]}]

SuIdle == [pc |-> "idle", sub |-> "", user_id |-> 0, outcome |-> "none"]

\* a request with a Clerk token of subject sub arrives:
\* user = db.get_user_by_auth("clerk", clerk_sub); a new uuid4 when there is none
ResolveGetUser(w, sub) ==
    /\ su_workers[w].pc = "idle"
    /\ su_next < MaxUuids
    /\ LET user == get_user_by_auth(su_users, "clerk", sub)
       IN  IF user = NULL
           THEN /\ su_next' = su_next + 1
                /\ su_workers' = [su_workers EXCEPT ![w] =
                       [pc |-> "create_user", sub |-> sub,
                        user_id |-> su_next + 1, outcome |-> "none"]]
           ELSE /\ su_next' = su_next
                /\ su_workers' = [su_workers EXCEPT ![w] =
                       [pc |-> "get_tenant", sub |-> sub,
                        user_id |-> user[1].id, outcome |-> "none"]]
    /\ UNCHANGED <<su_users, su_tenants>>
    /\ UNCHANGED <<vars_exec, vars_eval, vars_cred, vars_auth, vars_conn, rest_su>>

\* db.create_user(...); a constraint failure raises out of the function
ResolveCreateUser(w) ==
    /\ su_workers[w].pc = "create_user"
    /\ LET r == create_user(su_users, su_workers[w].user_id,
                            ClerkEmail(su_workers[w].sub), "clerk", su_workers[w].sub)
       IN  /\ su_users' = r.users
           /\ su_workers' = [su_workers EXCEPT ![w] =
                  IF r.raised THEN [@ EXCEPT !.pc = "idle", !.outcome = "raised"]
                  ELSE [@ EXCEPT !.pc = "get_tenant"]]
    /\ UNCHANGED <<su_tenants, su_next>>
    /\ UNCHANGED <<vars_exec, vars_eval, vars_cred, vars_auth, vars_conn, rest_su>>

\* tenant = db.get_tenant_by_user_id(user_id)
ResolveGetTenant(w) ==
    /\ su_workers[w].pc = "get_tenant"
    /\ su_next < MaxUuids
    /\ IF get_tenant_by_user_id(su_tenants, su_users, su_workers[w].user_id) = NULL
       THEN /\ su_workers' = [su_workers EXCEPT ![w].pc = "create_tenant"]
       ELSE /\ su_workers' = [su_workers EXCEPT ![w] =
                                 [@ EXCEPT !.pc = "idle", !.outcome = "returned"]]
    /\ UNCHANGED <<su_users, su_tenants, su_next>>
    /\ UNCHANGED <<vars_exec, vars_eval, vars_cred, vars_auth, vars_conn, rest_su>>

\* tenant_id = "tenant_" + uuid4; db.create_tenant(tenant_id, user_id)
ResolveCreateTenant(w) ==
    /\ su_workers[w].pc = "create_tenant"
    /\ su_next < MaxUuids
    /\ LET r == create_tenant(su_tenants, su_users, su_next + 1, su_workers[w].user_id)
       IN  /\ su_tenants' = r.tenants
           /\ su_workers' = [su_workers EXCEPT ![w] =
                  [@ EXCEPT !.pc = "idle",
                            !.outcome = IF r.raised THEN "raised" ELSE "returned"]]
    /\ su_next' = su_next + 1
    /\ UNCHANGED su_users
    /\ UNCHANGED <<vars_exec, vars_eval, vars_cred, vars_auth, vars_conn, rest_su>>

InitSignup ==
    /\ su_users = {}
    /\ su_tenants = {}
    /\ su_workers = [w \in Workers |-> SuIdle]
    /\ su_next = 0
    /\ IdleExec
    /\ IdleEval
    /\ IdleCred
    /\ IdleAuth
    /\ IdleConn
    /\ IdlePipe
    /\ IdleCtr
    /\ IdleHist
    /\ IdleJwks
    /\ IdleLate

NextSignup ==
    \/ \E w \in Workers, sub \in ClerkSubjects : ResolveGetUser(w, sub)
    \/ \E w \in Workers : ResolveCreateUser(w)
    \/ \E w \in Workers : ResolveGetTenant(w)
    \/ \E w \in Workers : ResolveCreateTenant(w)

SpecSignup == InitSignup /\ [][NextSignup]_vars

(***************************************************************************)
(* The action history under concurrent requests.  The handlers that call   *)
(* governor.evaluate are coroutines of one event loop: a coroutine keeps   *)
(* the loop until it awaits or returns.  record_action is followed step by *)
(* step: the append, the read of the list by the pruning comprehension,    *)
(* the assignment of the pruned list, and the two counts.                  *)
(***************************************************************************)
HistTimes == {0, RateWindow + 1, HistoryRetention + RateWindow + 2}

HistItem(id, ts) == [id |-> id, ts |-> ts]

\* [item for item in self.action_history if item[0] >= cutoff]
Pruned(history, ts) == SelectSeq(history, LAMBDA item : item.ts >= ts - HistoryRetention)

\* len([ts for ts, _, _, _ in self.action_history if ts >= cutoff_time])
RecentCount(history, ts) == Len(SelectSeq(history, LAMBDA item : item.ts >= ts - RateWindow))

CoIdle == [pc |-> "idle", id |-> 0, ts |-> 0, local |-> <<>>, seen |-> 0, expected |-> 0]

\* execute_action and clawdbot_invoke_proxy hold no await: a handler that has
\* started gives up the event loop only by returning
YieldsAt_EveryStep(pc) == TRUE

YieldsAt(pc) == pc = "done"

MayRun(w) == h_running = <<>> \/ h_running = <<w>>

Scheduled(w, pc) == IF YieldsAt(pc) THEN <<>> ELSE <<w>>

\* a request arrives and its handler is scheduled on the event loop
Arrive(w, ts) ==
    /\ h_co[w].pc \in {"idle", "done"}
    /\ h_next < MaxEvaluations
    /\ h_next' = h_next + 1
    /\ h_co' = [h_co EXCEPT ![w] = [CoIdle EXCEPT !.pc = "ready", !.id = h_next + 1, !.ts = ts]]
    /\ UNCHANGED <<h_history, h_running, h_expect>>
    /\ UNCHANGED <<vars_exec, vars_eval, vars_cred, vars_auth, vars_conn, rest_hist>>

\* record_action: self.action_history.append(...)
RecordAppend(w) ==
    /\ h_co[w].pc = "ready"
    /\ MayRun(w)
    /\ h_history' = Append(h_history, HistItem(h_co[w].id, h_co[w].ts))
    /\ h_expect' = Pruned(Append(h_expect, HistItem(h_co[w].id, h_co[w].ts)), h_co[w].ts)
    /\ h_co' = [h_co EXCEPT ![w].pc = "prune_read"]
    /\ h_running' = Scheduled(w, "prune_read")
    /\ UNCHANGED h_next
    /\ UNCHANGED <<vars_exec, vars_eval, vars_cred, vars_auth, vars_conn, rest_hist>>

\* record_action: the comprehension builds the pruned list
PruneRead(w) ==
    /\ h_co[w].pc = "prune_read"
    /\ MayRun(w)
    /\ h_co' = [h_co EXCEPT ![w].pc = "prune_write",
                            ![w].local = Pruned(h_history, h_co[w].ts)]
    /\ h_running' = Scheduled(w, "prune_write")
    /\ UNCHANGED <<h_history, h_expect, h_next>>
    /\ UNCHANGED <<vars_exec, vars_eval, vars_cred, vars_auth, vars_conn, rest_hist>>

\* record_action: self.action_history = <the pruned list>
PruneWrite(w) ==
    /\ h_co[w].pc = "prune_write"
    /\ MayRun(w)
    /\ h_history' = h_co[w].local
    /\ h_co' = [h_co EXCEPT ![w].pc = "count"]
    /\ h_running' = Scheduled(w, "count")
    /\ UNCHANGED <<h_expect, h_next>>
    /\ UNCHANGED <<vars_exec, vars_eval, vars_cred, vars_auth, vars_conn, rest_hist>>

\* detect_loop and check_rate_limit count the history; the handler returns
CountRecent(w) ==
    /\ h_co[w].pc = "count"
    /\ MayRun(w)
    /\ h_co' = [h_co EXCEPT ![w].pc = "done",
                            ![w].seen = RecentCount(h_history, h_co[w].ts),
                            ![w].expected = RecentCount(h_expect, h_co[w].ts)]
    /\ h_running' = Scheduled(w, "done")
    /\ UNCHANGED <<h_history, h_expect, h_next>>
    /\ UNCHANGED <<vars_exec, vars_eval, vars_cred, vars_auth, vars_conn, rest_hist>>

InitHist ==
    /\ h_history = <<>>
    /\ h_expect = <<>>
    /\ h_co = [w \in Workers |-> CoIdle]
    /\ h_running = <<>>
    /\ h_next = 0
    /\ IdleExec
    /\ IdleEval
    /\ IdleCred
    /\ IdleAuth
    /\ IdleConn
    /\ IdlePipe
    /\ IdleCtr
    /\ IdleSu
    /\ IdleJwks
    /\ IdleLate

NextHist ==
    \/ \E w \in Workers, ts \in HistTimes : Arrive(w, ts)
    \/ \E w \in Workers : RecordAppend(w)
    \/ \E w \in Workers : PruneRead(w)
    \/ \E w \in Workers : PruneWrite(w)
    \/ \E w \in Workers : CountRecent(w)

SpecHist == InitHist /\ [][NextHist]_vars

(***************************************************************************)
(* The Clerk JWKS cache.  verify_clerk_token is called by the coroutines   *)
(* AuthMiddleware.dispatch, signup and session; _get_clerk_jwks fetches    *)
(* with the blocking requests.get, during which the coroutine keeps the    *)
(* event loop.                                                             *)
(***************************************************************************)
JWKS_CACHE_TTL == 3600

Kids == {"kid_1", "kid_2"}

NoJwksCache == [keys |-> NULL, fetched_at |-> 0]

\* not force_refresh and _JWKS_CACHE.get("keys") and now - fetched_at < ttl
CacheFresh(cache, t) ==
    /\ cache.keys # NULL
    /\ cache.keys[1] # {}
    /\ t - cache.fetched_at < JWKS_CACHE_TTL

JIdle == [pc |-> "idle", kid |-> "", started |-> 0, outcome |-> "none"]

\* requests.get(jwks_url, ...) blocks: the coroutine gives up the event loop
\* only when the handler has returned
JwksYieldsAt_DuringFetch(pc) == pc \in {"done", "fetch", "refetch"}

JwksYieldsAt(pc) == pc = "done"

JMayRun(w) == j_running = <<>> \/ j_running = <<w>>

JScheduled(w, pc) == IF JwksYieldsAt(pc) THEN <<>> ELSE <<w>>

\* a request bearing a JWT with the given kid arrives
JwtArrive(w, kid) ==
    /\ j_co[w].pc \in {"idle", "done"}
    /\ j_next < MaxJwtRequests
    /\ j_next' = j_next + 1
    /\ j_co' = [j_co EXCEPT ![w] = [JIdle EXCEPT !.pc = "lookup", !.kid = kid]]
    /\ UNCHANGED <<j_cache, j_remote, j_running, j_now>>
    /\ UNCHANGED <<vars_exec, vars_eval, vars_cred, vars_auth, vars_conn, rest_jwks>>

\* the position after a key list was obtained: the key of the kid is found,
\* or the forced refresh starts, or (after the forced refresh) None is returned
AfterKeys(w, keys, forced, t) ==
    IF j_co[w].kid \in keys
    THEN [j_co[w] EXCEPT !.pc = "done", !.outcome = "claims"]
    ELSE IF forced
         THEN [j_co[w] EXCEPT !.pc = "done", !.outcome = "None"]
         ELSE [j_co[w] EXCEPT !.pc = "refetch", !.started = t]

\* keys = _get_clerk_jwks(): the cache answers, or the fetch starts
JwksLookup(w) ==
    /\ j_co[w].pc = "lookup"
    /\ JMayRun(w)
    /\ LET next == IF CacheFresh(j_cache, j_now)
                   THEN AfterKeys(w, j_cache.keys[1], FALSE, j_now)
                   ELSE [j_co[w] EXCEPT !.pc = "fetch", !.started = j_now]
       IN  /\ j_co' = [j_co EXCEPT ![w] = next]
           /\ j_running' = JScheduled(w, next.pc)
    /\ UNCHANGED <<j_cache, j_remote, j_now, j_next>>
    /\ UNCHANGED <<vars_exec, vars_eval, vars_cred, vars_auth, vars_conn, rest_jwks>>

\* requests.get returns: the keys are cached, or the fetch failed
JwksFetched(w, ok) ==
    /\ j_co[w].pc \in {"fetch", "refetch"}
    /\ JMayRun(w)
    /\ LET got == ok /\ j_remote # {}
           keys == IF got THEN j_remote ELSE {}
           next == AfterKeys(w, keys, j_co[w].pc = "refetch", j_now)
       IN  /\ j_cache' = IF got THEN [keys |-> <<j_remote>>, fetched_at |-> j_co[w].started]
                         ELSE j_cache
           /\ j_co' = [j_co EXCEPT ![w] = next]
           /\ j_running' = JScheduled(w, next.pc)
    /\ UNCHANGED <<j_remote, j_now, j_next>>
    /\ UNCHANGED <<vars_exec, vars_eval, vars_cred, vars_auth, vars_conn, rest_jwks>>

\* the cache's time to live passes
JwksTtlPasses ==
    /\ j_now < MaxTtlPeriods * JWKS_CACHE_TTL
    /\ j_now' = j_now + JWKS_CACHE_TTL
    /\ UNCHANGED <<j_cache, j_remote, j_co, j_running, j_next>>
    /\ UNCHANGED <<vars_exec, vars_eval, vars_cred, vars_auth, vars_conn, rest_jwks>>

\* the identity provider rotates its signing key
JwksRotate ==
    /\ j_remote = {"kid_1"}
    /\ j_remote' = {"kid_2"}
    /\ UNCHANGED <<j_cache, j_co, j_running, j_now, j_next>>
    /\ UNCHANGED <<vars_exec, vars_eval, vars_cred, vars_auth, vars_conn, rest_jwks>>

InitJwks ==
    /\ j_cache = NoJwksCache
    /\ j_remote = {"kid_1"}
    /\ j_co = [w \in Workers |-> JIdle]
    /\ j_running = <<>>
    /\ j_now = 0
    /\ j_next = 0
    /\ IdleExec
    /\ IdleEval
    /\ IdleCred
    /\ IdleAuth
    /\ IdleConn
    /\ IdlePipe
    /\ IdleCtr
    /\ IdleSu
    /\ IdleHist
    /\ IdleLate

NextJwks ==
    \/ \E w \in Workers, kid \in Kids : JwtArrive(w, kid)
    \/ \E w \in Workers : JwksLookup(w)
    \/ \E w \in Workers, ok \in BOOLEAN : JwksFetched(w, ok)
    \/ JwksTtlPasses
    \/ JwksRotate

SpecJwks == InitJwks /\ [][NextJwks]_vars

(***************************************************************************)
(* Properties of the authentication middleware.                            *)
(***************************************************************************)
Handled == auth_out.status # 0 /\ "handler" \in {auth_out.reached[i] : i \in DOMAIN auth_out.reached}

NonPublicPath(path) == path \notin PUBLIC_ENDPOINTS /\ RStripSlash(path) \notin PUBLIC_ENDPOINTS

\* the tenant a presented credential is bound to: the tenant of the active
\* API key or channel token with its hash, or of the session JWT
BoundTenant(header) ==
    LET token == get_token_from_header(header)
        rows == IF token = NULL THEN {}
                ELSE ActiveByHash(api_keys \cup channel_tokens, Hash(token[1]))
    IN  IF rows # {} THEN <<(CHOOSE r \in rows : TRUE).tenant_id>>
        ELSE IF token # NULL /\ cfg.CLERK_CONFIGURED THEN ClerkTenant(token[1])
        ELSE NULL

\* C3: in production with authentication on, a request that authenticates with
\* a tenant-bound token and reaches a handler is handled for the token's
\* tenant; outside development the X-Tenant-ID header never decides the tenant
C3_TenantFromTokenNotHeader ==
    Handled =>
        /\ (is_production(cfg) /\ cfg.AUTH_ENABLED /\ NonPublicPath(auth_out.req.path)
              /\ BoundTenant(auth_out.req.token) # NULL)
           => auth_out.handler_tenant_id = BoundTenant(auth_out.req.token)
        /\ (cfg.ENVIRONMENT # "development" /\ auth_out.state_tenant_id = NULL)
           => auth_out.handler_tenant_id = NULL

PermittedEnvToken(token) ==
    /\ ~(is_production(cfg) /\ ~cfg.ALLOW_ENV_TOKEN_IN_PROD)
    /\ cfg.API_TOKEN # NULL
    /\ cfg.API_TOKEN # <<"your-secret-token">>
    /\ token = cfg.API_TOKEN

\* the token is missing or matches no active API key, no active channel
\* token, no valid session JWT and no permitted environment token
Unmatched(header) ==
    LET token == get_token_from_header(header)
    IN  \/ token = NULL
        \/ /\ BoundTenant(header) = NULL
           /\ ~PermittedEnvToken(token)

Answered401 == auth_out.status = 401 /\ auth_out.reached = <<>>

Attempts(route) == {i \in DOMAIN conn_out : conn_out[i].route = route}

\* C9: once a connect code has been redeemed successfully, every later
\* redemption attempt with that code is rejected and stores nothing
C9_RedeemedCodeRejectedAfterwards ==
    \A i, j \in Attempts("submit") :
        (i < j /\ conn_out[i].code = conn_out[j].code /\ conn_out[i].status = 302)
        => (conn_out[j].status # 302 /\ ~conn_out[j].stored)

\* C10: of the redemption requests for one connect code that worker processes
\* handle concurrently at most one succeeds, so that the code yields at most
\* one channel token
C10_AtMostOneTokenPerCode ==
    /\ \A c \in TelegramCodeValues :
          Cardinality({i \in Attempts("verify") :
                          conn_out[i].code = c /\ conn_out[i].status = 200}) <= 1
    /\ Len(issued_tokens) <= Cardinality(TelegramCodeValues)

(***************************************************************************)
(* Properties of the middleware pipeline.                                  *)
(***************************************************************************)
\* C11: a request answered with a 4xx or 5xx status leaves every rate-limit
\* counter of the Store as it was before the request
C11_ErrorsLeaveCounters ==
    [][pipe_out'.status >= 400 => counters' = counters]_vars

\* the increment of the k-th window by worker w has been committed
Committed(w, k) ==
    \/ k < ctr_workers[w].k
    \/ k = ctr_workers[w].k /\ ctr_workers[w].pc = "done"

\* C12: whatever the interleaving of the workers, each counter holds its prior
\* value plus the number of increments of it that were carried out
C12_NoIncrementLost ==
    \A k \in DOMAIN WindowOrder :
        get_counter(counters, CtrKey(k))
            = ctr_prior + Cardinality({w \in Workers : Committed(w, k)})

\* every worker has incremented the minute counter, starting from an existing
\* row, and at least two of them were inside increment_rate_limit together
C12_Witness ==
    /\ ctr_prior = 1
    /\ \A w \in Workers : Committed(w, 1)
    /\ get_counter(counters, CtrKey(1)) = ctr_prior + Cardinality(Workers)
    /\ Cardinality({w \in Workers : ctr_workers[w].pc \in {"upsert", "commit"}}) >= 2

TenantsOf(user_id) == {t \in su_tenants : t.user_id = user_id}

\* C13: whenever no resolution is under way, every user owns exactly one tenant
C13_OneTenantPerUser ==
    (\A w \in Workers : su_workers[w].pc = "idle")
        => \A u \in su_users : Cardinality(TenantsOf(u.id)) = 1

HistorySteps == {"prune_read", "prune_write", "count"}

\* C14: at most one evaluation is inside the record, prune and count steps at
\* a time; an action that was recorded is in the history when its evaluation
\* counts; the history outside those steps is the one that evaluating the
\* requests one at a time gives, and so is every count
C14_HistoryStepsExclusive ==
    /\ Cardinality({w \in Workers : h_co[w].pc \in HistorySteps}) <= 1
    /\ \A w \in Workers :
          h_co[w].pc = "count"
              => \E i \in DOMAIN h_history : h_history[i].id = h_co[w].id
    /\ (\A w \in Workers : h_co[w].pc \notin HistorySteps) => h_history = h_expect
    /\ \A w \in Workers : h_co[w].pc = "done" => h_co[w].seen = h_co[w].expected

\* a second request is waiting for the event loop while an evaluation that
\* follows an earlier one is between the read and the write of the pruning
C14_Witness ==
    \E w1, w2 \in Workers :
        /\ w1 # w2
        /\ h_co[w1].pc = "prune_write"
        /\ Len(h_co[w1].local) = 2
        /\ h_co[w2].pc = "ready"

Fetching == {w \in Workers : j_co[w].pc \in {"fetch", "refetch"}}

\* C15: at most one coroutine of the process is inside the JWKS fetch
C15_OneRefreshInFlight == Cardinality(Fetching) <= 1

\* one request is inside the forced refresh for an unknown kid while another
\* request, whose kid the cache does not hold either, waits for the event loop
C15_Witness ==
    \E w1, w2 \in Workers :
        /\ w1 # w2
        /\ j_co[w1].pc = "refetch"
        /\ j_co[w2].pc = "lookup"
        /\ j_cache.keys # NULL
        /\ j_co[w2].kid \notin j_cache.keys[1]

\* C16: a connector built for a (credential_id, tenant) pair loads the row
\* of that pair that was saved last; a row that a save replaced under a
\* tenant is no longer in the Store, so no later load can return it
C16_LoadReadsLatestSave ==
    /\ cred_out.op = "load" =>
          LET rows == RowsOf(cred_out.credential_id, cred_out.tenant_id)
          IN  IF rows = <<>> THEN cred_out.source # "db"
              ELSE /\ cred_out.source = "db"
                   /\ cred_out.rowid = rows[Len(rows)].rowid
    /\ \A credential_id \in CredentialIds, tenant_id \in CredTenants \ {NULL} :
          Len(RowsOf(credential_id, tenant_id)) <= 1

\* the credential of a tenant was replaced by one with another secret and the
\* connector built for the pair afterwards loaded the new row
C16_Witness ==
    /\ cred_out.op = "load"
    /\ cred_out.source = "db"
    /\ cred_out.tenant_id # NULL
    /\ cred_replaced # <<>>
    /\ cred_replaced[1].credential_id = cred_out.credential_id
    /\ cred_replaced[1].tenant_id = cred_out.tenant_id
    /\ \E i \in DOMAIN credentials :
          /\ credentials[i].rowid = cred_out.rowid
          /\ credentials[i].credential_data.secret # cred_replaced[1].credential_data.secret

ClaimedStageOrder == <<"request_id", "auth", "mag", "rate_limit", "validation", "handler">>

IsPrefix(a, b) == Len(a) <= Len(b) /\ \A i \in DOMAIN a : a[i] = b[i]

\* C17: the stages a request has passed are, in this order, request-ID and
\* security headers, authentication, MAG validation, rate limit, validation,
\* handler, up to the stage that answered
C17_StagesInClaimedOrder == IsPrefix(pipe_out.stages, ClaimedStageOrder)

\* C18: every response carries an X-Request-ID header
C18_EveryResponseHasRequestId ==
    pipe_out.status # 0 => "X-Request-ID" \in pipe_out.headers

EvDecision == ev_out[1].decision[1]

\* C19: a DEGRADE decision carries a safe alternative with the tool, the
\* source and the requested_at of the action that was evaluated
C19_DegradeCarriesSafeAlternative ==
    (ev_out # <<>> /\ EvVerdict = "DEGRADE")
    => /\ EvDecision.safe_alternative # <<>>
       /\ EvDecision.safe_alternative[1].tool = ev_in[1].action.tool
       /\ EvDecision.safe_alternative[1].source = ev_in[1].action.source
       /\ EvDecision.safe_alternative[1].requested_at = ev_in[1].action.requested_at

\* an email send whose source is not the default was degraded
C19_Witness ==
    /\ ev_out # <<>>
    /\ EvVerdict = "DEGRADE"
    /\ ev_in[1].action.op = "send"
    /\ ev_in[1].action.source # "agent"
    /\ EvDecision.safe_alternative[1].op = "draft"

\* C20: an ESCALATE decision carries an escalation question and at least one
\* escalation option
C20_EscalateCarriesQuestion ==
    (ev_out # <<>> /\ EvVerdict = "ESCALATE")
    => /\ EvDecision.escalation_question # <<>>
       /\ Len(EvDecision.escalation_options) >= 1

\* C21: every call of evaluate returns a Decision; no exception leaves the
\* call, whatever the action and the intent
C21_EvaluateNeverRaises ==
    ev_out # <<>> => (~ev_out[1].raised /\ ev_out[1].decision # <<>>)

\* C22: two calls of evaluate with the same action, intent, clock value and
\* history snapshot return equal Decision objects
C22_SameInputsEqualDecisions ==
    (ev_out # <<>> /\ ev_again # <<>>) => ev_again[1].decision = ev_out[1].decision

\* the action of the evaluation lies outside the intent's scope and its
\* computed risk is critical (estimated critical, or a dangerous shell command)
OutOfScopeAndCritical ==
    LET a == ev_in[1].action
    IN  /\ ~allows_tool_op(ev_in[1].intent, a.tool, a.op)
        /\ \/ a.estimated_risk = "critical"
           \/ a.tool = "shell" /\ is_dangerous_command(a.params.command)

DraftsOnlySend ==
    /\ ev_in[1].intent.constraints.drafts_only
    /\ ev_in[1].action.tool = "email"
    /\ ev_in[1].action.op = "send"

\* C23 as claimed: an action that is out of scope and of critical computed
\* risk is answered with BLOCK and reason RISK_TOO_HIGH
C23_OutOfScopeCriticalIsRiskTooHigh ==
    (ev_out # <<>> /\ OutOfScopeAndCritical)
    => /\ EvVerdict = "BLOCK"
       /\ EvDecision.reason_code = "RISK_TOO_HIGH"

\* C23: an action that is out of scope and of critical computed risk is
\* answered with BLOCK and reason RISK_TOO_HIGH, except an email send under a
\* drafts_only constraint, which is degraded to a draft before the scope check
C23_OutOfScopeCriticalUnlessDegraded ==
    (ev_out # <<>> /\ OutOfScopeAndCritical)
    => IF DraftsOnlySend
       THEN EvVerdict = "DEGRADE"
       ELSE EvVerdict = "BLOCK" /\ EvDecision.reason_code = "RISK_TOO_HIGH"

\* a dangerous shell command of low estimated risk, outside the scope, was
\* blocked for its risk
C23_Witness ==
    /\ ev_out # <<>>
    /\ OutOfScopeAndCritical
    /\ ev_in[1].action.tool = "shell"
    /\ ev_in[1].action.estimated_risk = "low"
    /\ EvVerdict = "BLOCK"
    /\ EvDecision.reason_code = "RISK_TOO_HIGH"

\* the result lists a query by the decision's action_id can return
ByActionId(d) ==
    query_decisions(decisions, audit_events, <<d.action_id>>, <<>>, <<>>, <<>>, 100)

\* C24 as claimed: querying by a persisted decision's action_id returns one
\* result that carries the decision's id and its verdict
C24_QueryReturnsIdAndVerdict ==
    \A d \in decisions : \A res \in ByActionId(d) :
        /\ Len(res) = 1
        /\ res[1].id = d.decision_id
        /\ res[1].verdict = d.verdict

\* C24: querying by a persisted decision's action_id returns one result that
\* carries the decision's id and its verdict in the UI's vocabulary (allowed,
\* blocked, confirm)
C24_QueryReturnsIdAndUiVerdict ==
    \A d \in decisions : \A res \in ByActionId(d) :
        /\ Len(res) = 1
        /\ res[1].id = d.decision_id
        /\ res[1].action_id = d.action_id
        /\ res[1].verdict = VerdictUi(d.verdict)

\* two decisions are stored and the last query asked for the second one's
\* action_id
C24_Witness ==
    /\ Cardinality(decisions) = 2
    /\ dq_out # <<>>
    /\ dq_out[1].status = 200
    /\ dq_out[1].query.action_id = <<3>>
    /\ dq_out[1].total = 1
    /\ \E d \in decisions : d.action_id = 3 /\ dq_out[1].decisions[1].id = d.decision_id

\* the last request was a POST or PUT to an enforced path while MAG is enabled
MagApplies ==
    /\ pipe_out.status # 0
    /\ cfg.MAG_ENABLED
    /\ pipe_out.req.method \in {"POST", "PUT"}
    /\ RStripSlash(pipe_out.req.path) \in MAG_ENFORCE_PATHS

\* the decision bundle the last request came with: the inline one, else the
\* one the ledger holds under its decision id
SuppliedBundle ==
    LET req == pipe_out.req
        decision_id == IF req.x_decision_id # <<>> THEN req.x_decision_id
                       ELSE req.body_decision_id
    IN  IF req.decision_bundle # <<>> THEN req.decision_bundle
        ELSE IF decision_id # <<>> THEN MagLedger(decision_id[1])
        ELSE <<>>

\* its verdict is "allow", in any letter case
AllowSupplied ==
    /\ SuppliedBundle # <<>>
    /\ SuppliedBundle[1].verdict \in {<<"allow">>, <<"ALLOW">>}

HandlerReached == \E i \in 1..Len(pipe_out.stages) : pipe_out.stages[i] = "handler"

\* C25: with MAG enabled, a POST or PUT to an enforced path reaches its
\* handler only with a supplied or fetched decision bundle whose verdict is
\* "allow"; without one the request is answered with 400, 403 or 404
C25_MagGate ==
    MagApplies
    => /\ HandlerReached => AllowSupplied
       /\ ~AllowSupplied => pipe_out.status \in {400, 403, 404}

\* the part of C25 that holds: no enforced request reaches its handler
\* without an "allow" bundle
C25_HandlerOnlyWithAllow == MagApplies /\ HandlerReached => AllowSupplied

StoredIntent(intent_id) ==
    IF intent_id \in DOMAIN db_intents THEN db_intents[intent_id] ELSE <<>>

PresetIntent == IF active_preset = <<"casual_user">> THEN CasualUserIntent ELSE DefaultIntent

\* C26: POST /clawdbot/invoke evaluates against the stored intent that
\* X-Intent-ID names; without the header against the stored default intent of
\* the request's tenant when one is set; and otherwise against the intent of
\* the active preset
C26_IntentSelection ==
    [][ (last'.n = last.n + 1 /\ last'.endpoint = "/clawdbot/invoke")
        => LET x_intent_id == ci_in'[1].x_intent_id
               tenant_default == IF ci_in'[1].tenant_id = <<"t1">>
                                 THEN default_intent_id ELSE <<>>
           IN  IF x_intent_id # <<>>
               THEN StoredIntent(x_intent_id[1]) # <<>>
                    => last'.intent = StoredIntent(x_intent_id[1])[1]
               ELSE IF tenant_default # <<>>
               THEN StoredIntent(tenant_default[1]) # <<>>
                    => last'.intent = StoredIntent(tenant_default[1])[1]
               ELSE last'.intent = PresetIntent ]_vars

\* a /clawdbot/invoke request was handled and its connector posted to the
\* downstream gateway
InvokePosted ==
    /\ last'.n = last.n + 1
    /\ last'.endpoint = "/clawdbot/invoke"
    /\ last'.calls # <<>>

\* the credential row the connector of that request loaded
UsedCredential ==
    get_credential(credentials, DEFAULT_CLAWDBOT_CREDENTIAL_ID, "clawdbot", ci_in'[1].tenant_id)

\* that row after the request
RowAfter(rowid) ==
    LET hits == SelectSeq(credentials', LAMBDA r : r.rowid = rowid)
    IN  hits[1]

\* C27: after a connector invoke the credential row that was used reflects
\* the outcome: last_used_at is the time of the invoke and last_error is
\* cleared on success, last_error is set on failure
C27_RowReflectsOutcome ==
    [][ (InvokePosted /\ UsedCredential # <<>>)
        => IF ci_in'[1].downstream = "ok"
           THEN /\ RowAfter(UsedCredential[1].rowid).last_used_at = <<now'>>
                /\ RowAfter(UsedCredential[1].rowid).last_error = NULL
           ELSE RowAfter(UsedCredential[1].rowid).last_error # NULL ]_vars

\* C28: a /clawdbot/invoke request whose action was dispatched (verdict ALLOW
\* or DEGRADE) to a downstream that is unreachable is answered with 503
C28_UnreachableIs503 ==
    [][ (InvokePosted /\ ci_in'[1].downstream = "unreachable")
        => /\ last'.verdict \in {"ALLOW", "DEGRADE"}
           /\ last'.status = 503 ]_vars

\* an allowed invoke met an unreachable downstream and was answered with 503
C28_Witness ==
    /\ last.endpoint = "/clawdbot/invoke"
    /\ last.verdict = "ALLOW"
    /\ last.calls # <<>>
    /\ ci_in # <<>>
    /\ ci_in[1].downstream = "unreachable"
    /\ last.status = 503

\* the subject and the limits RateLimitMiddleware uses for the last request
LastSubject ==
    IF pipe_out'.req.agent_id = <<>> THEN "anonymous" ELSE pipe_out'.req.agent_id[1]

LastLimits ==
    IF pipe_out'.req.path \in POLLING_ENDPOINTS THEN POLLING_ENDPOINT_LIMITS
    ELSE IF pipe_out'.req.agent_id = <<>> THEN ANONYMOUS_LIMITS
    ELSE DEFAULT_LIMITS

\* the subject's counter of the window had reached the limit before the request
Violated(w) ==
    get_counter(counters, get_rate_limit_key(LastSubject, w, pipe_now)) >= LastLimits[w]

\* C29: a 429 of the rate limiter carries a Retry-After that corresponds to
\* the window whose limit was violated: 60 for the minute, 3600 for the hour
\* when the minute was not violated, 86400 for the day when neither was
C29_RetryAfterMatchesWindow ==
    [][ (pipe_out' # pipe_out /\ pipe_out'.status = 429)
        => pipe_out'.retry_after =
               IF Violated("minute") THEN <<"60">>
               ELSE IF Violated("hour") THEN <<"3600">>
               ELSE <<"86400">> ]_vars

\* the rows are kept in the order in which they were written: the row of a
\* pair that was written last is the last one of RowsOf
LastWritten(credential_id, tenant_id) ==
    LET rows == RowsOf(credential_id, tenant_id) IN rows[Len(rows)]

\* C30: in every store that saves and deletes can produce, a lookup of a
\* credential id and tenant (a tenant or the null tenant) that several rows
\* match returns the row of the pair that was written last, with or without
\* the tool filter; it returns nothing only when no row matches
C30_MostRecentRowWins ==
    \A credential_id \in CredentialIds, tenant_id \in CredTenants :
        /\ RowsOf(credential_id, tenant_id) # <<>> =>
              /\ get_credential(credentials, credential_id, "", tenant_id)
                     = <<LastWritten(credential_id, tenant_id)>>
              /\ get_credential(credentials, credential_id, "clawdbot", tenant_id)
                     = <<LastWritten(credential_id, tenant_id)>>
        /\ RowsOf(credential_id, tenant_id) = <<>> =>
              get_credential(credentials, credential_id, "", tenant_id) = <<>>

\* two rows of the null tenant with different secrets match a lookup, a
\* tenant's row of the same credential id was written in between, and the
\* lookup returns the later one of the two
C30_Witness ==
    \E credential_id \in CredentialIds :
        LET rows == RowsOf(credential_id, NULL)
        IN  /\ Len(rows) >= 2
            /\ rows[1].credential_data.secret # rows[Len(rows)].credential_data.secret
            /\ \E i \in DOMAIN credentials :
                  /\ credentials[i].credential_id = credential_id
                  /\ credentials[i].tenant_id # NULL
                  /\ credentials[i].rowid > rows[1].rowid
                  /\ credentials[i].rowid < rows[Len(rows)].rowid
            /\ get_credential(credentials, credential_id, "", NULL)
                   = <<rows[Len(rows)]>>

\* the (tool, op) of the evaluated action is in the scope of the intent
InScope ==
    LET a == ev_in[1].action
        scope == ev_in[1].intent.scope
    IN  a.tool \in DOMAIN scope /\ a.op \in scope[a.tool]

\* C31: evaluate returns ALLOW only for an action whose (tool, op) is in the
\* scope of the intent, whatever the action, the intent and the history
C31_AllowOnlyInScope ==
    /\ (ev_out # <<>> /\ EvVerdict = "ALLOW") => InScope
    /\ (ev_again # <<>> /\ ~ev_again[1].raised
            /\ ev_again[1].decision[1].verdict = "ALLOW") => InScope

\* an action was allowed under an intent whose scope names its tool only,
\* with earlier actions in the history
C31_Witness ==
    /\ ev_out # <<>>
    /\ EvVerdict = "ALLOW"
    /\ InScope
    /\ DOMAIN ev_in[1].intent.scope = {"email"}
    /\ ev_in[1].history # <<>>

(***************************************************************************)
(* One EDONGovernor over a sequence of submissions: every call of evaluate *)
(* works on the action history the calls before it left behind.            *)
(***************************************************************************)
IntentHours == [IntentEmail EXCEPT !.constraints.work_hours_only = TRUE]

\* what is submitted: an action shape and the intent it is evaluated under
EngineSubmissions ==
    { [source |-> "agent", tool |-> "email", op |-> "send", params |-> OneRecipient,
       intent |-> IntentEmail],
      [source |-> "agent", tool |-> "email", op |-> "draft", params |-> OneRecipient,
       intent |-> IntentEmail],
      [source |-> "agent", tool |-> "email", op |-> "send", params |-> ThreeRecipients,
       intent |-> IntentEmail],
      [source |-> "agent", tool |-> "email", op |-> "send", params |-> OneRecipient,
       intent |-> IntentDrafts],
      [source |-> "agent", tool |-> "shell", op |-> "run",
       params |-> [NoParams EXCEPT !.command = <<"ls">>], intent |-> IntentEmail],
      [source |-> "clawdbot", tool |-> "clawdbot", op |-> "invoke",
       params |-> [NoParams EXCEPT !.tool = <<"exec">>], intent |-> IntentClawdbot],
      [source |-> "agent", tool |-> "email", op |-> "send", params |-> OneRecipient,
       intent |-> IntentHours] }

\* seconds between two submissions
TickSteps == {30, 31}

InitEngine ==
    /\ pe_history = <<>>
    /\ pe_now = StartOfDay
    /\ pe_n = 0
    /\ pe_last = <<>>
    /\ IdleExec
    /\ IdleEval
    /\ IdleCred
    /\ IdleAuth
    /\ IdleConn
    /\ IdlePipe /\ IdleCtr /\ IdleSu /\ IdleHist /\ IdleJwks
    /\ IdleDq /\ IdleCi /\ IdleAd

\* governor.evaluate(action, intent) with action.requested_at the clock
Evaluated(sub) ==
    LET action == [id |-> 1, tool |-> sub.tool, op |-> sub.op, params |-> sub.params,
                   requested_at |-> pe_now, source |-> sub.source, tags |-> <<>>,
                   estimated_risk |-> "low", computed_risk |-> <<>>]
        r == evaluate(action, sub.intent, pe_history, 2)
    IN  /\ pe_history' = r.history
        /\ pe_last' = <<[action |-> action, intent |-> sub.intent,
                         raised |-> r.raised, decision |-> r.decision]>>
        /\ pe_n' = pe_n + 1
        /\ UNCHANGED pe_now
        /\ UNCHANGED <<vars_exec, vars_eval, vars_cred, vars_auth, vars_conn, rest_pe>>

Submit ==
    /\ pe_n < MaxSubmissions
    /\ \E sub \in EngineSubmissions : Evaluated(sub)

\* time passes between two submissions
Tick ==
    /\ pe_now < StartOfDay + MaxClock
    /\ \E d \in TickSteps : pe_now' = pe_now + d
    /\ UNCHANGED <<pe_history, pe_n, pe_last>>
    /\ UNCHANGED <<vars_exec, vars_eval, vars_cred, vars_auth, vars_conn, rest_pe>>

NextEngine == Submit \/ Tick

SpecEngine == InitEngine /\ [][NextEngine]_vars

\* a client that keeps submitting one action, more often than the rate limit
\* admits, within one second
BurstLength == max_actions_per_minute * 60 + 1

Resubmit ==
    /\ pe_n < BurstLength
    /\ Evaluated([source |-> "agent", tool |-> "email", op |-> "send",
                  params |-> OneRecipient, intent |-> IntentEmail])

NextBurst == Resubmit

SpecBurst == InitEngine /\ [][NextBurst]_vars

\* the step is a submission
Submitted == pe_n' = pe_n + 1

\* the submission and the decision of the step
Sub == pe_last'[1]

SubVerdict == IF Sub.raised THEN "raised" ELSE Sub.decision[1].verdict

SubReason == IF Sub.raised THEN "raised" ELSE Sub.decision[1].reason_code

\* the rules of evaluate that come before the action is recorded
ByDraftsOnly ==
    /\ Sub.intent.constraints.drafts_only
    /\ Sub.action.tool = "email" /\ Sub.action.op = "send"

ByScope ==
    ~(/\ Sub.action.tool \in DOMAIN Sub.intent.scope
      /\ Sub.action.op \in Sub.intent.scope[Sub.action.tool])

BySubAllowlist ==
    LET allowed == Sub.intent.constraints.allowed_clawdbot_tools
    IN  /\ Sub.action.tool = "clawdbot" /\ Sub.action.op = "invoke"
        /\ allowed # <<>>
        /\ \A i \in DOMAIN allowed : <<allowed[i]>> # Sub.action.params.tool

ByWorkHours ==
    /\ Sub.intent.constraints.work_hours_only
    /\ ~(work_hours_start * 3600 <= pe_now % 86400 /\ pe_now % 86400 < work_hours_end * 3600)

ReachesLoopCheck == ~(ByDraftsOnly \/ ByScope \/ BySubAllowlist \/ ByWorkHours)

\* the actions with the fingerprint of the submission that were recorded in
\* the last loop_detection_window_seconds, the submission itself included
Repetitions ==
    1 + Cardinality({i \in DOMAIN pe_history :
                        /\ pe_history[i].ts >= pe_now - loop_detection_window_seconds
                        /\ pe_history[i].tool = Sub.action.tool
                        /\ pe_history[i].op = Sub.action.op
                        /\ pe_history[i].params_hash = ParamsHash(Sub.action.params)})

\* the actions recorded in the last 60 seconds, the submission included
RecentActions ==
    1 + Cardinality({i \in DOMAIN pe_history : pe_history[i].ts >= pe_now - 60})

\* C32: a submission that reaches the loop check while at least
\* loop_detection_threshold actions of its (tool, op, params fingerprint),
\* itself included, lie in the last loop_detection_window_seconds is answered
\* with PAUSE and LOOP_DETECTED
C32_LoopIsPaused ==
    [][ (Submitted /\ ReachesLoopCheck /\ Repetitions >= loop_detection_threshold)
        => (SubVerdict = "PAUSE" /\ SubReason = "LOOP_DETECTED") ]_vars

\* the repetition that brings the count to exactly the threshold was paused,
\* with the oldest repetition exactly loop_detection_window_seconds old
C32_Witness ==
    /\ pe_last # <<>>
    /\ ~pe_last[1].raised
    /\ pe_last[1].decision[1].reason_code = "LOOP_DETECTED"
    /\ pe_last[1].action.requested_at = pe_now
    /\ Cardinality({i \in DOMAIN pe_history :
                       /\ pe_history[i].ts >= pe_now - loop_detection_window_seconds
                       /\ pe_history[i].tool = pe_last[1].action.tool
                       /\ pe_history[i].op = pe_last[1].action.op
                       /\ pe_history[i].params_hash = ParamsHash(pe_last[1].action.params)})
           = loop_detection_threshold
    /\ \E i \in DOMAIN pe_history :
          /\ pe_history[i].ts = pe_now - loop_detection_window_seconds
          /\ pe_history[i].op = pe_last[1].action.op
          /\ pe_history[i].params_hash = ParamsHash(pe_last[1].action.params)

\* C33: a submission with fewer than loop_detection_threshold actions of its
\* fingerprint, itself included, in the last loop_detection_window_seconds is
\* not answered with LOOP_DETECTED
C33_NoLoopBelowThreshold ==
    [][ (Submitted /\ Repetitions < loop_detection_threshold)
        => SubReason # "LOOP_DETECTED" ]_vars

\* after loop_detection_threshold repetitions, the last of them paused, the
\* same action was submitted when all of them were older than the window, and
\* it was allowed
C33_Witness ==
    /\ pe_last # <<>>
    /\ ~pe_last[1].raised
    /\ pe_last[1].decision[1].verdict = "ALLOW"
    /\ pe_last[1].action.requested_at = pe_now
    /\ Cardinality({i \in DOMAIN pe_history :
                       /\ pe_history[i].ts < pe_now - loop_detection_window_seconds
                       /\ pe_history[i].tool = pe_last[1].action.tool
                       /\ pe_history[i].op = pe_last[1].action.op
                       /\ pe_history[i].params_hash = ParamsHash(pe_last[1].action.params)})
           >= loop_detection_threshold

\* C34: a submission that reaches the rate check while at least
\* max_actions_per_minute actions, itself included, were recorded in the last
\* 60 seconds is answered with PAUSE and RATE_LIMIT
C34_RateLimitIsPaused ==
    [][ (/\ Submitted /\ ReachesLoopCheck
         /\ Repetitions < loop_detection_threshold
         /\ RecentActions >= max_actions_per_minute)
        => (SubVerdict = "PAUSE" /\ SubReason = "RATE_LIMIT") ]_vars

\* the action that brings the last minute to exactly max_actions_per_minute
\* recorded actions was paused for the rate
C34_Witness ==
    /\ pe_last # <<>>
    /\ ~pe_last[1].raised
    /\ pe_last[1].decision[1].reason_code = "RATE_LIMIT"
    /\ pe_last[1].action.requested_at = pe_now
    /\ Cardinality({i \in DOMAIN pe_history : pe_history[i].ts >= pe_now - 60})
           = max_actions_per_minute
    /\ \E i \in DOMAIN pe_history : pe_history[i].ts < pe_now

\* C39: a submission decided by the drafts-only, scope, sub-allowlist or
\* work-hours rule leaves the action history as it was, so that it is not
\* counted by the loop check or the rate check of a later submission
C39_EarlyRulesLeaveHistory ==
    [][ (Submitted /\ (ByDraftsOnly \/ ByScope \/ BySubAllowlist \/ ByWorkHours))
        => /\ pe_history' = pe_history
           /\ SubReason \in {"DEGRADED_TO_SAFE_ALTERNATIVE", "SCOPE_VIOLATION",
                             "RISK_TOO_HIGH", "OUT_OF_HOURS"} ]_vars

\* three submissions were decided before the recording step and the fourth,
\* the first to be recorded, was allowed
C39_Witness ==
    /\ pe_last # <<>>
    /\ pe_n = MaxSubmissions
    /\ Len(pe_history) = 1
    /\ pe_history[1].ts = pe_now
    /\ ~pe_last[1].raised
    /\ pe_last[1].decision[1].verdict = "ALLOW"

\* C35: after any sequence of evaluations the action history holds at most
\* max_actions_per_minute * 60 entries
C35_HistoryBounded == Len(pe_history) <= max_actions_per_minute * 60

\* the intent that clawdbot_invoke_proxy evaluates a request under
ProxyIntent(req) ==
    IF req.x_intent_id # NULL
    THEN IF /\ req.x_intent_id[1] \in DOMAIN db_intents
            /\ db_intents[req.x_intent_id[1]] # <<>>
         THEN db_intents[req.x_intent_id[1]][1]
         ELSE DefaultIntent
    ELSE IF active_preset = <<"casual_user">> THEN CasualUserIntent
    ELSE DefaultIntent

\* the invoke is in scope and the intent's allowed_clawdbot_tools is a
\* non-empty list without the inner tool of the request
OutsideSubAllowlist(req) ==
    LET intent == ProxyIntent(req)
        allowed == intent.constraints.allowed_clawdbot_tools
    IN  /\ "clawdbot" \in DOMAIN intent.scope
        /\ "invoke" \in intent.scope["clawdbot"]
        /\ allowed # <<>>
        /\ \A i \in DOMAIN allowed : allowed[i] # req.tool

\* C36: in every state the gateway reaches, a delegated-tool invoke that is
\* in scope under an intent whose non-empty allowed_clawdbot_tools does not
\* contain the inner tool is answered with BLOCK and SCOPE_VIOLATION and
\* makes no call to the delegated backend, whatever the tenant and the state
\* of the database, with the backend up or down
C36_SubAllowlistBlocks ==
    \A req \in ClawdbotRequests :
        OutsideSubAllowlist(req) =>
            \A tenant_id \in {NULL, <<"t1">>}, db_ok \in BOOLEAN,
               downstream \in {"ok", "unreachable"}, d \in Delays :
                LET out == clawdbot_invoke_proxy(req, tenant_id, db_ok, downstream, now + d)
                IN  /\ out.last.verdict = "BLOCK"
                    /\ out.last.reason_code = "SCOPE_VIOLATION"
                    /\ out.last.calls = <<>>
                    /\ out.calls = <<>>
                    /\ out.rows = credentials

\* such an invoke was handled: in scope, blocked as a scope violation under an
\* intent with a sub-allowlist, while the tenant has a usable credential and
\* no call was made
C36_Witness ==
    /\ last.endpoint = "/clawdbot/invoke"
    /\ last.verdict = "BLOCK"
    /\ last.reason_code = "SCOPE_VIOLATION"
    /\ "clawdbot" \in DOMAIN last.intent.scope
    /\ last.intent.constraints.allowed_clawdbot_tools # <<>>
    /\ ci_in # <<>> /\ ci_in[1].tenant_id = <<"t1">>
    /\ last.calls = <<>>
    /\ connector_calls = <<>>

\* C37: every call that reached a connector belongs to an action whose audit
\* event and decision row are in the Store
C37_PersistedBeforeConnector ==
    \A i \in DOMAIN connector_calls :
        /\ AuditRowsFor(connector_calls[i].action_id) >= 1
        /\ DecisionRowsFor(connector_calls[i].action_id) >= 1

(***************************************************************************)
(* RateLimitMiddleware.dispatch under requests that are in flight at the   *)
(* same time.  dispatch checks the counters, awaits call_next (the rest of *)
(* the pipeline and the handler) and increments the counters afterwards,   *)
(* when the response is 2xx; other requests run while it waits.  All       *)
(* requests fall into the same minute.                                     *)
(***************************************************************************)
AdSubjects == {"anonymous", "a1"}

AdIdle == [pc |-> "idle", subject |-> "anonymous", status |-> 0]

\* limits_to_use of a request that is not to a polling endpoint
AdLimits(subject) == IF subject = "anonymous" THEN ANONYMOUS_LIMITS ELSE DEFAULT_LIMITS

\* what call_next can answer with
AdStatuses == {200, 403}

InitAdmit ==
    /\ ad_co = [w \in Workers |-> AdIdle]
    /\ ad_admitted = [a \in AdSubjects |-> 0]
    /\ ad_next = 0
    /\ cfg = BaseConfig
    /\ tenants = <<>> /\ api_keys = {} /\ channel_tokens = {} /\ auth_out = <<>>
    /\ counters = [k \in CounterKeys |-> <<>>]
    /\ tenant_usage = <<>>
    /\ pipe_now = 0
    /\ pipe_out = <<>>
    /\ IdleExec
    /\ IdleEval
    /\ IdleCred
    /\ IdleConn
    /\ IdleCtr /\ IdleSu /\ IdleHist /\ IdleJwks
    /\ IdleDq /\ IdleCi /\ IdlePe

\* dispatch up to `await call_next(request)`: 429 when check_rate_limit
\* refuses, else the request is passed on
AdmitCheck(w, subject) ==
    /\ ad_co[w].pc = "idle"
    /\ ad_next < MaxArrivals
    /\ ad_next' = ad_next + 1
    /\ ad_co' = [ad_co EXCEPT ![w] =
                    IF rl_check_rate_limit(counters, subject, AdLimits(subject), cfg, pipe_now)
                    THEN [pc |-> "call_next", subject |-> subject, status |-> 0]
                    ELSE [pc |-> "idle", subject |-> subject, status |-> 429]]
    /\ UNCHANGED <<ad_admitted, vars_pipe>>
    /\ UNCHANGED <<vars_exec, vars_eval, vars_cred, vars_auth, vars_conn, rest_ad>>

\* call_next has returned: the counters are incremented for a 2xx response
AdmitRespond(w, status_code) ==
    /\ ad_co[w].pc = "call_next"
    /\ ad_co' = [ad_co EXCEPT ![w].pc = "idle", ![w].status = status_code]
    /\ IF 200 <= status_code /\ status_code < 300
       THEN /\ counters' = increment_rate_limit(counters, ad_co[w].subject, cfg, pipe_now)
            /\ ad_admitted' = [ad_admitted EXCEPT ![ad_co[w].subject] = @ + 1]
       ELSE UNCHANGED <<counters, ad_admitted>>
    /\ UNCHANGED <<ad_next, tenant_usage, pipe_now, pipe_out>>
    /\ UNCHANGED <<vars_exec, vars_eval, vars_cred, vars_auth, vars_conn, rest_ad>>

NextAdmit ==
    \/ \E w \in Workers, subject \in AdSubjects : AdmitCheck(w, subject)
    \/ \E w \in Workers, status_code \in AdStatuses : AdmitRespond(w, status_code)

SpecAdmit == InitAdmit /\ [][NextAdmit]_vars

\* C38: for every subject and every window, the requests of the subject that
\* passed the rate limiter and were answered 2xx within the window's bucket
\* are at most the limit of the window, also when requests of the subject are
\* handled at the same time
C38_AdmittedWithinLimit ==
    \A subject \in AdSubjects, window \in Windows :
        ad_admitted[subject] <= AdLimits(subject)[window]

\* the tenants (the null tenant included) whose row of the deleted credential
\* id a lookup returned before the step and no longer returns after it
TenantsLosingRow ==
    {t \in CredTenants :
        /\ get_credential(credentials, cred_out'.credential_id, "", t) # <<>>
        /\ get_credential(credentials', cred_out'.credential_id, "", t) = <<>>}

\* C40: a delete of a credential, made on behalf of one tenant, removes the
\* row of at most that one tenant: the rows of the same credential_id of all
\* other tenants and of the null tenant are still returned by get_credential
C40_DeleteRemovesOneTenantsRow ==
    [][ cred_out'.op = "delete" => Cardinality(TenantsLosingRow) <= 1 ]_vars

====
